---- MODULE Spec2Model ----
(***************************************************************************)
(* EagleJS: a chainable Collection (an Array subclass) of host DOM items.  *)
(* The model has two layers.  The host layer is the part of the DOM the    *)
(* library calls into (node types, the child lists, insertBefore with its  *)
(* pre-insertion validity, cloneNode, textContent, innerHTML, attributes,  *)
(* classList, dataset, matches).  The library layer is one operator per    *)
(* method of class EagleJS, translated from src/src/eaglejs.esm.ts, and    *)
(* one action per method call.                                             *)
(***************************************************************************)
EXTENDS Integers, Sequences, FiniteSets, TLC

\* ------------------------------------------------------------------ bounds
\* Size of the pool of node identities (allocated nodes plus the free ones
\* that createTextNode / cloneNode / the HTML parser draw from: up to four
\* for every member of a receiver).
MaxNodes == 24
\* Longest Collection the program holds as a receiver.
MaxLen == 3
\* Longest argument list of one call.
MaxArgs == 2

\* ------------------------------------------------------------- JS values
\* A JS value that can sit in an argument list is modelled by an integer:
\* a node identity, the window, null, a plain object, or an XMLHttpRequest.
Null == 0
Nodes == 1 .. MaxNodes
Window == MaxNodes + 1
PlainObject == MaxNodes + 2
UndefinedValue == MaxNodes + 3
\* an XMLHttpRequest: an EventTarget that is no Node and has a readyState
Request == MaxNodes + 4
\* null and undefined where a string is expected (getAttribute, dataset[k]).
JSNull == "null"
Undefined == "undefined"

\* ---------------------------------------------------------- small helpers
Range(s) == {s[i] : i \in 1 .. Len(s)}
Includes(s, x) == \E i \in 1 .. Len(s) : s[i] = x
IndexOf(s, x) == IF Includes(s, x) THEN CHOOSE i \in 1 .. Len(s) : s[i] = x /\ \A j \in 1 .. i - 1 : s[j] # x ELSE 0
Reverse(s) == [i \in 1 .. Len(s) |-> s[Len(s) + 1 - i]]
Without(s, x) == SelectSeq(s, LAMBDA y : y # x)
SeqsUpTo(S, n) == UNION {[1 .. k -> S] : k \in 0 .. n}
Min(S) == CHOOSE x \in S : \A y \in S : x <= y
\* The element of a one-element set.  { e(v) : v \in {x} } names the value x
\* as v inside e, so that x is computed once.
Only(S) == CHOOSE v \in S : TRUE

\* ------------------------------------------------------------ host: nodes
ELEMENT_NODE == 1
TEXT_NODE == 3
COMMENT_NODE == 8
DOCUMENT_NODE == 9
DOCUMENT_TYPE_NODE == 10
DOCUMENT_FRAGMENT_NODE == 11

AttrNames == {"id", "title"}
\* dataset keys after the dash-to-camelCase conversion, as character lists
CamelKeys == {<<"k">>, <<"a", "B">>, <<"a", "-", "B">>, <<"-">>}

NoAttrs == [a \in AttrNames |-> JSNull]
NoData == [k \in CamelKeys |-> Undefined]

\* The state of the host document(s): every field is a map over node ids.
\* nodeType 0 marks an identity that is not allocated yet.
\* The event types and the listener functions of the model; a listener is
\* registered under its type and its callback (capture is false throughout).
EventTypes == {"x", "y"}
Listeners == {"f", "g"}
EventKeys == EventTypes \X Listeners
EventTargets == Nodes \cup {Window, Request}
\* Element.namespaceURI; HTMLElement, SVGElement and MathMLElement have a
\* dataset, an Element of another namespace has none
HTMLNamespace == "http://www.w3.org/1999/xhtml"
DatasetNamespaces ==
    {HTMLNamespace, "http://www.w3.org/2000/svg", "http://www.w3.org/1998/Math/MathML"}
\* the elements that have a readyState of their own (a number)
MediaTags == {"video", "audio", "track"}
EmptyDom ==
    [nodeType |-> [n \in Nodes |-> 0],
     childNodes |-> [n \in Nodes |-> <<>>],
     nodeValue |-> [n \in Nodes |-> ""],
     tagName |-> [n \in Nodes |-> ""],
     namespaceURI |-> [n \in Nodes |-> HTMLNamespace],
     attrs |-> [n \in Nodes |-> NoAttrs],
     classList |-> [n \in Nodes |-> {}],
     dataset |-> [n \in Nodes |-> NoData],
     readyState |-> [n \in Nodes |-> ""],          \* Document.readyState
     listeners |-> [n \in Nodes |-> <<>>],         \* the DOMContentLoaded listeners of a node
     contentLoaded |-> [n \in Nodes |-> FALSE],    \* DOMContentLoaded has been dispatched
     timers |-> <<>>,                              \* the callbacks setTimeout has queued
     handlers |-> [n \in EventTargets |-> <<>>],   \* the event listener list of a target
     count |-> [n \in EventTargets |-> [k \in EventKeys |-> 0]],  \* the runs of a listener at a target
     readyOrder |-> <<>>,                          \* the listeners handed to ready(), by their first call
     viaOne |-> {},                                \* <<target, type, callback>> registered last with one()
     invoked |-> <<>>,                             \* the callbacks the host has run, in order
     overflow |-> FALSE]

IsAllocated(d, v) == v \in Nodes /\ d.nodeType[v] # 0
NodeTypeOf(d, v) == IF v \in Nodes THEN d.nodeType[v] ELSE 0

ParentNode(d, n) ==
    IF \E p \in Nodes : Includes(d.childNodes[p], n)
    THEN CHOOSE p \in Nodes : Includes(d.childNodes[p], n)
    ELSE Null

FirstChild(d, n) == IF d.childNodes[n] = <<>> THEN Null ELSE d.childNodes[n][1]
LastChild(d, n) == IF d.childNodes[n] = <<>> THEN Null ELSE d.childNodes[n][Len(d.childNodes[n])]

NextSibling(d, n) ==
    LET p == ParentNode(d, n) IN
    IF p = Null THEN Null
    ELSE LET i == IndexOf(d.childNodes[p], n) IN
         IF i < Len(d.childNodes[p]) THEN d.childNodes[p][i + 1] ELSE Null

PreviousSibling(d, n) ==
    LET p == ParentNode(d, n) IN
    IF p = Null THEN Null
    ELSE LET i == IndexOf(d.childNodes[p], n) IN
         IF i > 1 THEN d.childNodes[p][i - 1] ELSE Null

\* ParentNode.children: the element children only
Children(d, n) == SelectSeq(d.childNodes[n], LAMBDA c : d.nodeType[c] = ELEMENT_NODE)

RECURSIVE IsInclusiveAncestor(_, _, _)
IsInclusiveAncestor(d, a, n) ==
    IF n = Null THEN FALSE
    ELSE IF a = n THEN TRUE
    ELSE IsInclusiveAncestor(d, a, ParentNode(d, n))

\* the subtree of n in document (pre-)order
RECURSIVE PreOrder(_, _)
RECURSIVE PreOrderAll(_, _)
PreOrder(d, n) == <<n>> \o PreOrderAll(d, d.childNodes[n])
PreOrderAll(d, s) == IF s = <<>> THEN <<>> ELSE PreOrder(d, Head(s)) \o PreOrderAll(d, Tail(s))
Descendants(d, n) == Tail(PreOrder(d, n))

\* ------------------------------------------------------ host: allocation
FreeNodes(d) == {n \in Nodes : d.nodeType[n] = 0}

\* A fresh node of the given type; the pool running dry sets overflow, which
\* turns every later host mutation into a no-op and disables the action.
CreateNode(d, type, tag, value) ==
    IF d.overflow \/ FreeNodes(d) = {}
    THEN [dom |-> [d EXCEPT !.overflow = TRUE], node |-> 1]
    ELSE LET n == Min(FreeNodes(d)) IN
         [dom |-> [d EXCEPT !.nodeType[n] = type, !.tagName[n] = tag, !.nodeValue[n] = value],
          node |-> n]

CreateTextNode(d, value) == CreateNode(d, TEXT_NODE, "", value)
\* ------------------------------------------------- host: tree mutation
RemoveFromParent(d, n) ==
    LET p == ParentNode(d, n) IN
    IF p = Null THEN d ELSE [d EXCEPT !.childNodes[p] = Without(@, n)]

ElementChildCount(d, n) == Len(Children(d, n))
HasTextChild(d, n) == \E i \in 1 .. Len(d.childNodes[n]) : d.nodeType[d.childNodes[n][i]] = TEXT_NODE

\* parent has a child of the type; one before, one after its child c
HasChildOfType(d, parent, type) ==
    \E i \in 1 .. Len(d.childNodes[parent]) : d.nodeType[d.childNodes[parent][i]] = type
TypeBefore(d, parent, c, type) ==
    \E i \in 1 .. IndexOf(d.childNodes[parent], c) - 1 : d.nodeType[d.childNodes[parent][i]] = type
TypeAfter(d, parent, c, type) ==
    \E i \in IndexOf(d.childNodes[parent], c) + 1 .. Len(d.childNodes[parent]) :
        d.nodeType[d.childNodes[parent][i]] = type
\* an Element may not go into a Document that has an element child, nor
\* before its doctype
ElementRaisesInDocument(d, parent, child) ==
    \/ ElementChildCount(d, parent) > 0
    \/ child # Null /\ ParentNode(d, child) = parent
         /\ (d.nodeType[child] = DOCUMENT_TYPE_NODE \/ TypeAfter(d, parent, child, DOCUMENT_TYPE_NODE))

\* DOM "ensure pre-insertion validity": TRUE when insertBefore(node, child) on
\* parent raises (HierarchyRequestError, or NotFoundError for a foreign child).
InsertionRaises(d, parent, node, child) ==
    \/ d.nodeType[parent] \notin {ELEMENT_NODE, DOCUMENT_NODE, DOCUMENT_FRAGMENT_NODE}
    \/ IsInclusiveAncestor(d, node, parent)
    \/ child # Null /\ ParentNode(d, child) # parent
    \/ d.nodeType[node] \notin {ELEMENT_NODE, TEXT_NODE, COMMENT_NODE, DOCUMENT_FRAGMENT_NODE,
                                DOCUMENT_TYPE_NODE}
    \/ d.nodeType[node] = TEXT_NODE /\ d.nodeType[parent] = DOCUMENT_NODE
    \/ d.nodeType[node] = DOCUMENT_TYPE_NODE /\ d.nodeType[parent] # DOCUMENT_NODE
    \/ /\ d.nodeType[parent] = DOCUMENT_NODE
       /\ d.nodeType[node] = ELEMENT_NODE
       /\ ElementRaisesInDocument(d, parent, child)
    \/ /\ d.nodeType[parent] = DOCUMENT_NODE
       /\ d.nodeType[node] = DOCUMENT_FRAGMENT_NODE
       /\ \/ ElementChildCount(d, node) > 1
          \/ HasTextChild(d, node)
          \/ ElementChildCount(d, node) = 1 /\ ElementRaisesInDocument(d, parent, child)
    \/ /\ d.nodeType[parent] = DOCUMENT_NODE
       /\ d.nodeType[node] = DOCUMENT_TYPE_NODE
       /\ \/ HasChildOfType(d, parent, DOCUMENT_TYPE_NODE)
          \/ child # Null /\ ParentNode(d, child) = parent /\ TypeBefore(d, parent, child, ELEMENT_NODE)
          \/ child = Null /\ ElementChildCount(d, parent) > 0

\* Node.insertBefore(node, child): a DocumentFragment gives up its children,
\* any other node is first removed from where it was.  child = Null appends.
InsertBefore(d, parent, node, child) ==
    IF d.overflow THEN [dom |-> d, threw |-> FALSE]
    ELSE IF InsertionRaises(d, parent, node, child) THEN [dom |-> d, threw |-> TRUE]
    ELSE LET ref == IF child = node THEN NextSibling(d, node) ELSE child
             moved == IF d.nodeType[node] = DOCUMENT_FRAGMENT_NODE THEN d.childNodes[node] ELSE <<node>>
             d1 == IF d.nodeType[node] = DOCUMENT_FRAGMENT_NODE
                   THEN [d EXCEPT !.childNodes[node] = <<>>]
                   ELSE RemoveFromParent(d, node)
             kids == d1.childNodes[parent]
             at == IF ref = Null THEN Len(kids) + 1 ELSE IndexOf(kids, ref)
         IN [dom |-> [d1 EXCEPT !.childNodes[parent] = SubSeq(kids, 1, at - 1) \o moved \o SubSeq(kids, at, Len(kids))],
             threw |-> FALSE]

\* Node.removeChild(child); the library only calls it with a child of parent
RemoveChild(d, parent, child) ==
    IF d.overflow THEN d ELSE [d EXCEPT !.childNodes[parent] = Without(@, child)]

\* Node.cloneNode(deep): a copy with a fresh identity and no parent
RECURSIVE CloneNode(_, _, _)
RECURSIVE CloneList(_, _, _)
CloneNode(d, n, deep) ==
    LET c == CreateNode(d, d.nodeType[n], d.tagName[n], d.nodeValue[n]) IN
    IF c.dom.overflow THEN c
    ELSE LET d1 == [c.dom EXCEPT !.attrs[c.node] = d.attrs[n],
                                 !.namespaceURI[c.node] = d.namespaceURI[n],
                                 !.classList[c.node] = d.classList[n],
                                 !.dataset[c.node] = d.dataset[n]]
         IN IF ~deep THEN [dom |-> d1, node |-> c.node]
            ELSE LET k == CloneList(d1, d.childNodes[n], <<>>) IN
                 [dom |-> [k.dom EXCEPT !.childNodes[c.node] = k.nodes], node |-> c.node]
CloneList(d, s, acc) ==
    IF s = <<>> \/ d.overflow THEN [dom |-> d, nodes |-> acc]
    ELSE Only({CloneList(c.dom, Tail(s), Append(acc, c.node)) : c \in {CloneNode(d, Head(s), TRUE)}})

\* ------------------------------------------------- host: text and markup
RECURSIVE ConcatText(_, _)
ConcatText(d, s) ==
    IF s = <<>> THEN ""
    ELSE (IF d.nodeType[Head(s)] = TEXT_NODE THEN d.nodeValue[Head(s)] ELSE "") \o ConcatText(d, Tail(s))

\* Node.textContent (get): null on a Document or a doctype, the data of a
\* Text or Comment, the concatenated data of the Text descendants otherwise
TextContent(d, n) ==
    IF d.nodeType[n] \in {DOCUMENT_NODE, DOCUMENT_TYPE_NODE} THEN JSNull
    ELSE IF d.nodeType[n] \in {TEXT_NODE, COMMENT_NODE} THEN d.nodeValue[n]
    ELSE ConcatText(d, Descendants(d, n))

\* the only child of n is a Text node
HasOneTextChild(d, n) ==
    Len(d.childNodes[n]) = 1 /\ d.nodeType[d.childNodes[n][1]] = TEXT_NODE

\* Node.textContent (set): ignored by a Document or a doctype, replaces the data of a Text
\* or Comment, replaces all children by one Text node (none for "") otherwise.
\* The host leaves the children alone when the only child is a Text node that
\* holds the new, non-empty text already.
SetTextContent(d, n, v) ==
    IF d.overflow \/ d.nodeType[n] \in {DOCUMENT_NODE, DOCUMENT_TYPE_NODE} THEN d
    ELSE IF d.nodeType[n] \in {TEXT_NODE, COMMENT_NODE} THEN [d EXCEPT !.nodeValue[n] = v]
    ELSE IF HasOneTextChild(d, n) /\ d.nodeValue[d.childNodes[n][1]] = v /\ v # "" THEN d
    ELSE IF v = "" THEN [d EXCEPT !.childNodes[n] = <<>>]
    ELSE LET t == CreateTextNode(d, v) IN
         IF t.dom.overflow THEN t.dom ELSE [t.dom EXCEPT !.childNodes[n] = <<t.node>>]

\* Markup is a list of lexical tokens.
OpenTag(tag) == [t |-> "open", tag |-> tag, attrs |-> NoAttrs, classList |-> {}, dataset |-> NoData]
CloseTag(tag) == [t |-> "close", tag |-> tag]
TextTok(s) == [t |-> "text", data |-> s]
CommentTok(s) == [t |-> "comment", data |-> s]

\* append a token list to another, merging text that becomes adjacent
JoinMarkup(a, b) ==
    IF a # <<>> /\ b # <<>> /\ a[Len(a)].t = "text" /\ b[1].t = "text"
    THEN SubSeq(a, 1, Len(a) - 1) \o <<TextTok(a[Len(a)].data \o b[1].data)>> \o Tail(b)
    ELSE a \o b

\* the HTML serialization of a list of nodes
RECURSIVE Serialize(_, _)
Serialize(d, s) ==
    IF s = <<>> THEN <<>>
    ELSE LET n == Head(s)
             one == IF d.nodeType[n] = ELEMENT_NODE
                    THEN JoinMarkup(JoinMarkup(<<[t |-> "open", tag |-> d.tagName[n], attrs |-> d.attrs[n],
                                                   classList |-> d.classList[n], dataset |-> d.dataset[n]]>>,
                                                Serialize(d, d.childNodes[n])),
                                    <<CloseTag(d.tagName[n])>>)
                    ELSE IF d.nodeType[n] = TEXT_NODE
                    THEN (IF d.nodeValue[n] = "" THEN <<>> ELSE <<TextTok(d.nodeValue[n])>>)
                    ELSE IF d.nodeType[n] = COMMENT_NODE THEN <<CommentTok(d.nodeValue[n])>>
                    ELSE <<>>
         IN JoinMarkup(one, Serialize(d, Tail(s)))

\* Element.innerHTML (get)
InnerHTML(d, n) == Serialize(d, d.childNodes[n])

\* The fragment parser: open is the stack of open elements, innermost last,
\* with the context node at the bottom.  An unmatched end tag is ignored and
\* elements still open at the end are closed.
RECURSIVE ParseInto(_, _, _)
ParseInto(d, open, toks) ==
    IF toks = <<>> \/ d.overflow THEN d
    ELSE LET tk == Head(toks)
             cur == open[Len(open)]
             last == LastChild(d, cur)
         IN IF tk.t = "open"
            THEN LET c == CreateNode(d, ELEMENT_NODE, tk.tag, "") IN
                 IF c.dom.overflow THEN c.dom
                 ELSE ParseInto([c.dom EXCEPT !.attrs[c.node] = tk.attrs,
                                              !.classList[c.node] = tk.classList,
                                              !.dataset[c.node] = tk.dataset,
                                              !.childNodes[cur] = Append(@, c.node)],
                                Append(open, c.node), Tail(toks))
            ELSE IF tk.t = "close"
            THEN LET hits == {i \in 2 .. Len(open) : d.tagName[open[i]] = tk.tag} IN
                 IF hits = {} THEN ParseInto(d, open, Tail(toks))
                 ELSE ParseInto(d, SubSeq(open, 1, (CHOOSE i \in hits : \A j \in hits : j <= i) - 1), Tail(toks))
            ELSE IF tk.t = "text"
            THEN IF last # Null /\ d.nodeType[last] = TEXT_NODE
                 THEN ParseInto([d EXCEPT !.nodeValue[last] = @ \o tk.data], open, Tail(toks))
                 ELSE LET c == CreateTextNode(d, tk.data) IN
                      IF c.dom.overflow THEN c.dom
                      ELSE ParseInto([c.dom EXCEPT !.childNodes[cur] = Append(@, c.node)], open, Tail(toks))
            ELSE LET c == CreateNode(d, COMMENT_NODE, "", tk.data) IN
                 IF c.dom.overflow THEN c.dom
                 ELSE ParseInto([c.dom EXCEPT !.childNodes[cur] = Append(@, c.node)], open, Tail(toks))

\* The fragment parser with <html> as its context starts "before head": a
\* comment becomes a child of the context and an end tag is ignored (but
\* </head>, </body>, </html> and </br>) until another token, or the end of
\* the markup, makes the parser build <head> and <body>.  The text tokens of
\* the model hold no white space and its start tags belong to <body>.
RECURSIVE LeadTokens(_)
LeadTokens(toks) ==
    IF toks = <<>> THEN 0
    ELSE IF Head(toks).t = "comment" THEN 1 + LeadTokens(Tail(toks))
    ELSE IF Head(toks).t = "close" /\ Head(toks).tag \notin {"head", "body", "html", "br"}
    THEN 1 + LeadTokens(Tail(toks))
    ELSE 0

RECURSIVE BeforeHead(_, _, _)
BeforeHead(d, n, toks) ==
    IF toks = <<>> \/ d.overflow THEN d
    ELSE IF Head(toks).t = "comment"
    THEN LET c == CreateNode(d, COMMENT_NODE, "", Head(toks).data) IN
         IF c.dom.overflow THEN c.dom
         ELSE BeforeHead([c.dom EXCEPT !.childNodes[n] = Append(@, c.node)], n, Tail(toks))
    ELSE BeforeHead(d, n, Tail(toks))

\* <head> and <body> are built under the context n, the rest of the markup is
\* parsed "in body"
HeadAndBody(d, n, toks) ==
    IF d.overflow THEN d
    ELSE LET h == CreateNode(d, ELEMENT_NODE, "head", "") IN
         IF h.dom.overflow THEN h.dom
         ELSE LET b == CreateNode(h.dom, ELEMENT_NODE, "body", "") IN
              IF b.dom.overflow THEN b.dom
              ELSE ParseInto([b.dom EXCEPT !.childNodes[n] = @ \o <<h.node, b.node>>], <<n, b.node>>, toks)

\* Element.innerHTML (set): the old children are dropped, the markup parsed
\* in the context of the element
SetInnerHTML(d, n, markup) ==
    IF d.overflow THEN d
    ELSE IF d.tagName[n] = "html"
    THEN HeadAndBody(BeforeHead([d EXCEPT !.childNodes[n] = <<>>], n, SubSeq(markup, 1, LeadTokens(markup))),
                     n, SubSeq(markup, LeadTokens(markup) + 1, Len(markup)))
    ELSE ParseInto([d EXCEPT !.childNodes[n] = <<>>], <<n>>, markup)

\* ------------------------------------------------- host: events and timers
\* EventTarget.addEventListener('DOMContentLoaded', l): a listener that is
\* registered already is not registered again
AddEventListener(d, n, l) ==
    IF Includes(d.listeners[n], l) THEN d ELSE [d EXCEPT !.listeners[n] = Append(@, l)]
\* setTimeout(l), no delay: the callback is queued behind those queued before
SetTimeout(d, l) == [d EXCEPT !.timers = Append(@, l)]

\* EventTarget.addEventListener(type, callback, {once}): dropped when the list
\* holds a listener of the same type and callback already
IsListener(r, type, callback) == r.type = type /\ r.callback = callback
AddEventListenerOnce(d, n, type, callback, once) ==
    IF \E i \in 1 .. Len(d.handlers[n]) : IsListener(d.handlers[n][i], type, callback)
    THEN d
    ELSE [d EXCEPT !.handlers[n] = Append(@, [type |-> type, callback |-> callback, once |-> once])]
\* EventTarget.removeEventListener(type, callback)
RemoveEventListener(d, n, type, callback) ==
    [d EXCEPT !.handlers[n] = SelectSeq(@, LAMBDA r : ~IsListener(r, type, callback))]

\* The path of an event that bubbles: the target, its ancestors and, above a
\* Document, the window.
RECURSIVE EventPath(_, _)
EventPath(d, n) ==
    IF n = Window THEN <<Window>>
    ELSE IF ParentNode(d, n) # Null THEN <<n>> \o EventPath(d, ParentNode(d, n))
    ELSE IF NodeTypeOf(d, n) = DOCUMENT_NODE THEN <<n, Window>>
    ELSE <<n>>

\* The listeners of a target are run from a copy of its list: one that has
\* been removed meanwhile is passed over, one registered with once is removed
\* before its callback runs; the callback of the model counts its runs.
RECURSIVE InvokeListeners(_, _, _, _)
InvokeListeners(d, n, type, regs) ==
    IF regs = <<>> THEN d
    ELSE LET r == Head(regs)
             removed == [d EXCEPT !.handlers[n] = SelectSeq(@, LAMBDA q : q # r)]
             ran == [(IF r.once THEN removed ELSE d) EXCEPT !.count[n][<<r.type, r.callback>>] = @ + 1]
         IN  InvokeListeners(IF r.type = type /\ Includes(d.handlers[n], r) THEN ran ELSE d,
                             n, type, Tail(regs))
\* EventTarget.dispatchEvent(new CustomEvent(type, {bubbles: true}))
RECURSIVE Propagate(_, _, _)
Propagate(d, path, type) ==
    IF path = <<>> THEN d
    ELSE Propagate(InvokeListeners(d, Head(path), type, d.handlers[Head(path)]), Tail(path), type)
DispatchEvent(d, n, type) == Propagate(d, EventPath(d, n), type)

\* ------------------------------------------- host: attributes and matching
GetAttribute(d, n, name) == d.attrs[n][name]
\* Element.removeAttribute(name): getAttribute(name) answers null afterwards
RemoveAttribute(d, n, name) == IF d.overflow THEN d ELSE [d EXCEPT !.attrs[n][name] = JSNull]
SetAttribute(d, n, name, v) == IF d.overflow THEN d ELSE [d EXCEPT !.attrs[n][name] = v]
SetData(d, n, key, v) == IF d.overflow THEN d ELSE [d EXCEPT !.dataset[n][key] = v]

\* Element.matches(selector) for the selectors of the model
Selectors == {"*", ".cls", "#a", "b"}
Matches(d, n, sel) ==
    IF sel = "*" THEN TRUE
    ELSE IF sel = ".cls" THEN "cls" \in d.classList[n]
    ELSE IF sel = "#a" THEN d.attrs[n]["id"] = "a"
    ELSE d.tagName[n] = sel

\* What `'prop' in item` answers, by the interface the property belongs to
ElementProps == {"classList", "setAttribute", "getAttribute", "removeAttribute", "innerHTML", "closest", "matches"}
ParentNodeProps == {"querySelector", "querySelectorAll", "children"}
NodeProps == {"textContent", "cloneNode", "childNodes", "firstChild", "parentNode"}
SiblingProps == {"nextElementSibling", "previousElementSibling"}
HasProp(d, v, prop) ==
    LET ty == NodeTypeOf(d, v) IN
    IF prop \in ElementProps THEN ty = ELEMENT_NODE
    ELSE IF prop = "dataset" THEN ty = ELEMENT_NODE /\ d.namespaceURI[v] \in DatasetNamespaces
    ELSE IF prop \in ParentNodeProps THEN ty \in {ELEMENT_NODE, DOCUMENT_NODE, DOCUMENT_FRAGMENT_NODE}
    ELSE IF prop \in NodeProps THEN ty # 0
    ELSE IF prop \in SiblingProps THEN ty \in {ELEMENT_NODE, TEXT_NODE, COMMENT_NODE}
    ELSE IF prop = "readyState"
    THEN ty = DOCUMENT_NODE \/ (ty = ELEMENT_NODE /\ d.tagName[v] \in MediaTags) \/ v = Request
    ELSE IF prop = "addEventListener" THEN ty # 0 \/ v \in {Window, Request}
    ELSE FALSE
NextElementSibling(d, n) ==
    LET p == ParentNode(d, n) IN
    IF p = Null THEN Null
    ELSE LET kids == d.childNodes[p]
             i == IndexOf(kids, n)
             later == {j \in i + 1 .. Len(kids) : d.nodeType[kids[j]] = ELEMENT_NODE}
         IN IF later = {} THEN Null ELSE kids[Min(later)]

PreviousElementSibling(d, n) ==
    LET p == ParentNode(d, n) IN
    IF p = Null THEN Null
    ELSE LET kids == d.childNodes[p]
             i == IndexOf(kids, n)
             earlier == {j \in 1 .. i - 1 : d.nodeType[kids[j]] = ELEMENT_NODE}
         IN IF earlier = {} THEN Null ELSE kids[CHOOSE j \in earlier : \A k \in earlier : k <= j]

\* Element.closest(selector): the nearest inclusive ancestor element matching
RECURSIVE Closest(_, _, _)
Closest(d, n, sel) ==
    IF n = Null \/ d.nodeType[n] # ELEMENT_NODE THEN Null
    ELSE IF Matches(d, n, sel) THEN n
    ELSE Closest(d, ParentNode(d, n), sel)

\* ParentNode.querySelectorAll / querySelector: matching descendant elements
\* in document order / the first of them
QuerySelectorAll(d, n, sel) ==
    SelectSeq(Descendants(d, n), LAMBDA e : d.nodeType[e] = ELEMENT_NODE /\ Matches(d, e, sel))
QuerySelector(d, n, sel) ==
    LET all == QuerySelectorAll(d, n, sel) IN IF all = <<>> THEN Null ELSE all[1]

\* ---------------------------------------------------- library: predicates
\* EagleJS.isDOMItem: Boolean(value) && Boolean(value.addEventListener)
isDOMItem(d, v) == v # Null /\ HasProp(d, v, "addEventListener")

\* the predicates of the CommonJS build
isNode(d, v) == v # Null /\ NodeTypeOf(d, v) # 0
isElement(d, v) == isNode(d, v) /\ NodeTypeOf(d, v) = 1
isDocument(d, v) == isNode(d, v) /\ NodeTypeOf(d, v) = 9
isParentNode(d, v) == isNode(d, v) /\ NodeTypeOf(d, v) \in {1, 9, 11}

\* EagleJS.isChildNode
\* (variant for C20: a DocumentType is not taken for a ChildNode)
isChildNodeButDoctype(d, v) == v # Null /\ NodeTypeOf(d, v) # 0 /\ NodeTypeOf(d, v) \in {1, 3, 4, 7, 8}

isChildNode(d, v) == v # Null /\ NodeTypeOf(d, v) # 0 /\ NodeTypeOf(d, v) \in {1, 3, 4, 7, 8, 10}

\* --------------------------------------------------- library: return values
\* What a call hands back.  kind "this" is the receiver itself, "collection"
\* a newly created Collection, "threw" an exception of the host.
NoRet ==
    [kind |-> "none", coll |-> <<>>, markup |-> <<>>, str |-> "", num |-> 0, obj |-> NoData, bool |-> FALSE,
     item |-> Null]
RetThis == [NoRet EXCEPT !.kind = "this"]
RetColl(c) == [NoRet EXCEPT !.kind = "collection", !.coll = c]
RetStr(x) == [NoRet EXCEPT !.kind = "string", !.str = x]
RetNum(x) == [NoRet EXCEPT !.kind = "number", !.num = x]
RetObj(x) == [NoRet EXCEPT !.kind = "object", !.obj = x]
RetBool(x) == [NoRet EXCEPT !.kind = "boolean", !.bool = x]
RetMarkup(x) == [NoRet EXCEPT !.kind = "markup", !.markup = x]
RetItem(x) == [NoRet EXCEPT !.kind = "item", !.item = x]
RetUndefined == [NoRet EXCEPT !.kind = "undefined"]
RetThrew == [NoRet EXCEPT !.kind = "threw"]

\* ------------------------------------------- library: the Collection itself
\* push: the items that are DOMItems and are not in the receiver are handed,
\* all together, to Array.prototype.push; returns the new length
\* (variant for C21: the filter forgets the isDOMItem test)
pushWithoutIsDOMItem(d, c, items) ==
    LET kept == SelectSeq(items, LAMBDA item : ~Includes(c, item))
    IN [this |-> c \o kept, ret |-> RetNum(Len(c \o kept))]

\* (variant for C4: the filter forgets the test for members already present)
pushWithoutIncludes(d, c, items) ==
    LET kept == SelectSeq(items, LAMBDA item : isDOMItem(d, item))
    IN [this |-> c \o kept, ret |-> RetNum(Len(c \o kept))]

push(d, c, items) ==
    LET kept == SelectSeq(items, LAMBDA item : isDOMItem(d, item) /\ ~Includes(c, item))
    IN [this |-> c \o kept, ret |-> RetNum(Len(c \o kept))]

\* unshift: the same filter, Array.prototype.unshift
unshift(d, c, items) ==
    LET kept == SelectSeq(items, LAMBDA item : isDOMItem(d, item) /\ ~Includes(c, item))
    IN [this |-> kept \o c, ret |-> RetNum(Len(kept \o c))]

\* Constructor arguments and matchers are tagged by the JS type the code
\* dispatches on.
NullArg == [kind |-> "null"]
StrArg(x) == [kind |-> "string", str |-> x]
ListArg(l) == [kind |-> "list", list |-> l]
ItemArg(v) == [kind |-> "item", item |-> v]
FnArg(f) == [kind |-> "function", fn |-> f]

\* (variant for C13: a list is taken in backward)
ConstructBackward(d, selector) ==
    IF selector.kind = "null" THEN <<>>
    ELSE IF selector.kind = "list" THEN push(d, <<>>, Reverse(selector.list)).this
    ELSE push(d, <<>>, <<selector.item>>).this

\* new EagleJS(selector) for a selector that is null, a list or a single value
Construct(d, selector) ==
    IF selector.kind = "null" THEN <<>>
    ELSE IF selector.kind = "list" THEN push(d, <<>>, selector.list).this
    ELSE push(d, <<>>, <<selector.item>>).this

\* Array.prototype.concat: arrays among the arguments are spread
RECURSIVE ArrayConcat(_, _)
ArrayConcat(c, args) ==
    IF args = <<>> THEN c
    ELSE ArrayConcat(c \o (IF Head(args).kind = "list" THEN Head(args).list ELSE <<Head(args).item>>), Tail(args))

\* concat: new EagleJS(super.concat(...items))
concat(d, c, args) == [this |-> c, ret |-> RetColl(Construct(d, ListArg(ArrayConcat(c, args))))]

\* ------------------------------------------------ library: content insertion
\* Content inputs are tagged: StrArg(text) or ItemArg(node).
\* nodeArray: every string becomes one new Text node, a node passes through
RECURSIVE Materialize(_, _, _)
Materialize(d, content, acc) ==
    IF content = <<>> THEN [dom |-> d, nodes |-> acc]
    ELSE IF Head(content).kind = "string"
    THEN Only({Materialize(t.dom, Tail(content), Append(acc, t.node)) : t \in {CreateTextNode(d, Head(content).str)}})
    ELSE Materialize(d, Tail(content), Append(acc, Head(content).item))

\* nodeArray.forEach(node => parent.insertBefore(first ? node : node.cloneNode(true), ref));
\* an exception of insertBefore ends the loop
RECURSIVE InsertEach(_, _, _, _, _)
InsertEach(d, parent, nodeArray, first, ref) ==
    IF nodeArray = <<>> THEN [dom |-> d, threw |-> FALSE]
    ELSE Only({IF r.threw THEN r ELSE InsertEach(r.dom, parent, Tail(nodeArray), first, ref) :
                  r \in {InsertBefore(c.dom, parent, c.node, ref) :
                         c \in {IF first THEN [dom |-> d, node |-> Head(nodeArray)]
                                         ELSE CloneNode(d, Head(nodeArray), TRUE)}}})

\* the forEach of after() over this.slice().reverse()
RECURSIVE AfterLoop(_, _, _, _)
\* (variant for C2: the content is appended to the parent instead of being
\* inserted before the target's next sibling)
AfterLoopAppends(d, items, nodeArray, first) ==
    IF items = <<>> THEN [dom |-> d, threw |-> FALSE]
    ELSE LET item == Head(items) IN
         IF isChildNode(d, item) /\ ParentNode(d, item) # Null
         THEN Only({IF r.threw THEN r ELSE AfterLoop(r.dom, Tail(items), nodeArray, FALSE) :
                    r \in {InsertEach(d, ParentNode(d, item), nodeArray, first, Null)}})
         ELSE AfterLoop(d, Tail(items), nodeArray, first)

AfterLoop(d, items, nodeArray, first) ==
    IF items = <<>> THEN [dom |-> d, threw |-> FALSE]
    ELSE LET item == Head(items) IN
         IF isChildNode(d, item) /\ ParentNode(d, item) # Null
         THEN Only({IF r.threw THEN r ELSE AfterLoop(r.dom, Tail(items), nodeArray, FALSE) :
                    r \in {InsertEach(d, ParentNode(d, item), nodeArray, first, NextSibling(d, item))}})
         ELSE AfterLoop(d, Tail(items), nodeArray, first)

after(d, c, content) ==
    Only({[dom |-> r.dom, this |-> c, ret |-> IF r.threw THEN RetThrew ELSE RetThis] :
          r \in {AfterLoop(m.dom, Reverse(c), m.nodes, TRUE) : m \in {Materialize(d, content, <<>>)}}})

\* the forEach of before()
RECURSIVE BeforeLoop(_, _, _, _)
BeforeLoop(d, items, nodeArray, first) ==
    IF items = <<>> THEN [dom |-> d, threw |-> FALSE]
    ELSE LET item == Head(items) IN
         IF isChildNode(d, item) /\ ParentNode(d, item) # Null
         THEN Only({IF r.threw THEN r ELSE BeforeLoop(r.dom, Tail(items), nodeArray, FALSE) :
                    r \in {InsertEach(d, ParentNode(d, item), nodeArray, first, item)}})
         ELSE BeforeLoop(d, Tail(items), nodeArray, first)

\* (variant for C6: the receiver itself is reversed, not a copy of it)
beforeReversesReceiver(d, c, content) ==
    Only({[dom |-> r.dom, this |-> Reverse(c), ret |-> IF r.threw THEN RetThrew ELSE RetThis] :
          r \in {BeforeLoop(m.dom, Reverse(c), m.nodes, TRUE) : m \in {Materialize(d, content, <<>>)}}})

before(d, c, content) ==
    Only({[dom |-> r.dom, this |-> c, ret |-> IF r.threw THEN RetThrew ELSE RetThis] :
          r \in {BeforeLoop(m.dom, Reverse(c), m.nodes, TRUE) : m \in {Materialize(d, content, <<>>)}}})

\* the forEach of append(): item.appendChild(x) is insertBefore(x, null)
RECURSIVE AppendLoop(_, _, _, _)
AppendLoop(d, items, nodeArray, first) ==
    IF items = <<>> THEN [dom |-> d, threw |-> FALSE]
    ELSE LET item == Head(items) IN
         IF HasProp(d, item, "querySelector")
         THEN Only({IF r.threw THEN r ELSE AppendLoop(r.dom, Tail(items), nodeArray, FALSE) :
                    r \in {InsertEach(d, item, nodeArray, first, Null)}})
         ELSE AppendLoop(d, Tail(items), nodeArray, first)

\* (variant for C24: a call that raises puts the tree back as it was)
appendRollsBack(d, c, content) ==
    Only({[dom |-> IF r.threw THEN d ELSE r.dom, this |-> c, ret |-> IF r.threw THEN RetThrew ELSE RetThis] :
          r \in {AppendLoop(m.dom, Reverse(c), m.nodes, TRUE) : m \in {Materialize(d, content, <<>>)}}})

append(d, c, content) ==
    Only({[dom |-> r.dom, this |-> c, ret |-> IF r.threw THEN RetThrew ELSE RetThis] :
          r \in {AppendLoop(m.dom, Reverse(c), m.nodes, TRUE) : m \in {Materialize(d, content, <<>>)}}})

\* the forEach of prepend()
RECURSIVE PrependLoop(_, _, _, _)
PrependLoop(d, items, nodeArray, first) ==
    IF items = <<>> THEN [dom |-> d, threw |-> FALSE]
    ELSE LET item == Head(items) IN
         IF HasProp(d, item, "querySelector")
         THEN Only({IF r.threw THEN r ELSE PrependLoop(r.dom, Tail(items), nodeArray, FALSE) :
                    r \in {InsertEach(d, item, nodeArray, first, FirstChild(d, item))}})
         ELSE PrependLoop(d, Tail(items), nodeArray, first)

\* (variant for C25: the members are visited from the front)
prependFromFront(d, c, content) ==
    Only({[dom |-> r.dom, this |-> c, ret |-> IF r.threw THEN RetThrew ELSE RetThis] :
          r \in {PrependLoop(m.dom, c, m.nodes, TRUE) : m \in {Materialize(d, content, <<>>)}}})

prepend(d, c, content) ==
    Only({[dom |-> r.dom, this |-> c, ret |-> IF r.threw THEN RetThrew ELSE RetThis] :
          r \in {PrependLoop(m.dom, Reverse(c), m.nodes, TRUE) : m \in {Materialize(d, content, <<>>)}}})

\* remove(): every ChildNode member with a parent is taken out of it
RECURSIVE RemoveLoop(_, _)
RemoveLoop(d, items) ==
    IF items = <<>> THEN d
    ELSE LET item == Head(items) IN
         IF isChildNode(d, item) /\ ParentNode(d, item) # Null
         THEN RemoveLoop(RemoveChild(d, ParentNode(d, item), item), Tail(items))
         ELSE RemoveLoop(d, Tail(items))

remove(d, c) == [dom |-> RemoveLoop(d, c), this |-> c, ret |-> RetThis]

\* replaceWith(): this.before(...nodes).remove()
replaceWith(d, c, content) ==
    Only({IF b.ret.kind = "threw" THEN b ELSE remove(b.dom, b.this) : b \in {before(d, c, content)}})
\* ------------------------------------------------------ library: matching
\* The callbacks handed to filter / not / is in the model; each is called with
\* (item, index, array), index counted from 0.
Callbacks == {"evenIndex", "isText", "isFirstOfArray", "never"}
Call(f, d, item, index, array) ==
    IF f = "evenIndex" THEN index % 2 = 0
    ELSE IF f = "isText" THEN NodeTypeOf(d, item) = TEXT_NODE
    ELSE IF f = "isFirstOfArray" THEN array[1] = item
    ELSE FALSE

RECURSIVE SelectIdx(_, _, _)
SelectIdx(c, keep, i) ==
    IF i > Len(c) THEN <<>>
    ELSE (IF keep[i] THEN <<c[i]>> ELSE <<>>) \o SelectIdx(c, keep, i + 1)

\* Array.prototype.filter on the Collection: a new Collection (made by the
\* species constructor and filled without push), the receiver untouched
ArrayFilter(c, keep) == SelectIdx(c, keep, 1)

\* the per-item test filter() builds for each kind of selector
\* (variant for C9: a list is compared like a single item, so that no member
\* passes it)
FilterTestListAsItem(d, c, i, selector) ==
    IF selector.kind = "string" THEN HasProp(d, c[i], "matches") /\ Matches(d, c[i], selector.str)
    ELSE IF selector.kind = "function" THEN Call(selector.fn, d, c[i], i - 1, c)
    ELSE IF selector.kind = "list" THEN FALSE
    ELSE c[i] = selector.item

FilterTest(d, c, i, selector) ==
    IF selector.kind = "string" THEN HasProp(d, c[i], "matches") /\ Matches(d, c[i], selector.str)
    ELSE IF selector.kind = "function" THEN Call(selector.fn, d, c[i], i - 1, c)
    ELSE IF selector.kind = "list" THEN Includes(selector.list, c[i])
    ELSE c[i] = selector.item

filter(d, c, selector) ==
    [dom |-> d, this |-> c,
     ret |-> RetColl(ArrayFilter(c, [i \in 1 .. Len(c) |-> FilterTest(d, c, i, selector)]))]

\* the per-item test not() hands to filter() for each kind of selector
NotTest(d, c, i, selector) ==
    IF selector.kind = "string" THEN HasProp(d, c[i], "matches") /\ ~Matches(d, c[i], selector.str)
    ELSE IF selector.kind = "function" THEN ~Call(selector.fn, d, c[i], i - 1, c)
    ELSE IF selector.kind = "list" THEN ~Includes(selector.list, c[i])
    ELSE c[i] # selector.item

not(d, c, selector) ==
    [dom |-> d, this |-> c,
     ret |-> RetColl(ArrayFilter(c, [i \in 1 .. Len(c) |-> NotTest(d, c, i, selector)]))]

\* ---------------------------------------------------- library: predicates
\* (variant for C11: every in place of some)
isEvery(d, c, selector) ==
    [dom |-> d, this |-> c,
     ret |-> RetBool(IF selector.kind = "string"
                     THEN \A i \in 1 .. Len(c) : HasProp(d, c[i], "matches") /\ Matches(d, c[i], selector.str)
                     ELSE IF selector.kind = "function"
                     THEN \A i \in 1 .. Len(c) : Call(selector.fn, d, c[i], i - 1, c)
                     ELSE IF selector.kind = "list"
                     THEN \A i \in 1 .. Len(c) : Includes(selector.list, c[i])
                     ELSE \A i \in 1 .. Len(c) : c[i] = selector.item)]

\* is(): this.some(test) with the test of the selector's kind; this.includes
\* for a single item
is(d, c, selector) ==
    [dom |-> d, this |-> c,
     ret |-> RetBool(IF selector.kind = "string"
                     THEN \E i \in 1 .. Len(c) : HasProp(d, c[i], "matches") /\ Matches(d, c[i], selector.str)
                     ELSE IF selector.kind = "function"
                     THEN \E i \in 1 .. Len(c) : Call(selector.fn, d, c[i], i - 1, c)
                     ELSE IF selector.kind = "list"
                     THEN \E i \in 1 .. Len(c) : Includes(selector.list, c[i])
                     ELSE Includes(c, selector.item))]

\* hasClass(): this.some(item => 'classList' in item && item.classList.contains(name))
hasClass(d, c, name) ==
    [dom |-> d, this |-> c,
     ret |-> RetBool(\E i \in 1 .. Len(c) : HasProp(d, c[i], "classList") /\ name \in d.classList[c[i]])]

\* ---------------------------------------------------- library: projections
\* $elements.push(...list) once per member, in member order
RECURSIVE PushEach(_, _, _)
PushEach(d, acc, lists) ==
    IF lists = <<>> THEN acc ELSE PushEach(d, push(d, acc, Head(lists)).this, Tail(lists))

\* the trailing `if (filter !== null) return $elements.filter(filter)`
Filtered(d, elements, flt) ==
    IF flt.kind = "null" THEN RetColl(elements) ELSE filter(d, elements, flt).ret

\* (variant for C5: the children are pushed into the receiver, which is
\* returned)
childrenIntoReceiver(d, c, flt) ==
    LET found == [i \in 1 .. Len(c) |-> IF HasProp(d, c[i], "children") THEN Children(d, c[i]) ELSE <<>>]
    IN [dom |-> d, this |-> PushEach(d, c, found), ret |-> RetThis]

children(d, c, flt) ==
    LET found == [i \in 1 .. Len(c) |-> IF HasProp(d, c[i], "children") THEN Children(d, c[i]) ELSE <<>>]
    IN [dom |-> d, this |-> c, ret |-> Filtered(d, PushEach(d, <<>>, found), flt)]

contents(d, c) ==
    LET found == [i \in 1 .. Len(c) |-> IF HasProp(d, c[i], "childNodes") THEN d.childNodes[c[i]] ELSE <<>>]
    IN [dom |-> d, this |-> c, ret |-> RetColl(PushEach(d, <<>>, found))]

parent(d, c, flt) ==
    LET found == [i \in 1 .. Len(c) |->
                    IF HasProp(d, c[i], "parentNode") /\ ParentNode(d, c[i]) # Null
                    THEN <<ParentNode(d, c[i])>> ELSE <<>>]
    IN [dom |-> d, this |-> c, ret |-> Filtered(d, PushEach(d, <<>>, found), flt)]

next(d, c, flt) ==
    LET found == [i \in 1 .. Len(c) |->
                    IF HasProp(d, c[i], "nextElementSibling") /\ NextElementSibling(d, c[i]) # Null
                    THEN <<NextElementSibling(d, c[i])>> ELSE <<>>]
    IN [dom |-> d, this |-> c, ret |-> Filtered(d, PushEach(d, <<>>, found), flt)]

prev(d, c, flt) ==
    LET found == [i \in 1 .. Len(c) |->
                    IF HasProp(d, c[i], "previousElementSibling") /\ PreviousElementSibling(d, c[i]) # Null
                    THEN <<PreviousElementSibling(d, c[i])>> ELSE <<>>]
    IN [dom |-> d, this |-> c, ret |-> Filtered(d, PushEach(d, <<>>, found), flt)]

siblings(d, c, flt) ==
    LET found == [i \in 1 .. Len(c) |->
                    IF HasProp(d, c[i], "parentNode") /\ ParentNode(d, c[i]) # Null
                    THEN Without(Children(d, ParentNode(d, c[i])), c[i]) ELSE <<>>]
    IN [dom |-> d, this |-> c, ret |-> Filtered(d, PushEach(d, <<>>, found), flt)]

closest(d, c, sel) ==
    LET found == [i \in 1 .. Len(c) |->
                    IF HasProp(d, c[i], "closest") /\ Closest(d, c[i], sel) # Null
                    THEN <<Closest(d, c[i], sel)>> ELSE <<>>]
    IN [dom |-> d, this |-> c, ret |-> RetColl(PushEach(d, <<>>, found))]

querySelector(d, c, sel) ==
    LET found == [i \in 1 .. Len(c) |->
                    IF HasProp(d, c[i], "querySelector") /\ QuerySelector(d, c[i], sel) # Null
                    THEN <<QuerySelector(d, c[i], sel)>> ELSE <<>>]
    IN [dom |-> d, this |-> c, ret |-> RetColl(PushEach(d, <<>>, found))]

querySelectorAll(d, c, sel) ==
    LET found == [i \in 1 .. Len(c) |->
                    IF HasProp(d, c[i], "querySelectorAll") THEN QuerySelectorAll(d, c[i], sel) ELSE <<>>]
    IN [dom |-> d, this |-> c, ret |-> RetColl(PushEach(d, <<>>, found))]

\* find() of the CommonJS build: the matching descendants for a string, and
\* Array.prototype.find (the first member the callback accepts, or undefined)
\* for a function
RECURSIVE ArrayFind(_, _, _, _)
ArrayFind(d, c, f, i) ==
    IF i > Len(c) THEN RetUndefined
    ELSE IF Call(f, d, c[i], i - 1, c) THEN RetItem(c[i])
    ELSE ArrayFind(d, c, f, i + 1)

find(d, c, selector) ==
    IF selector.kind = "string"
    THEN LET found == [i \in 1 .. Len(c) |->
                         IF NodeTypeOf(d, c[i]) \in {ELEMENT_NODE, DOCUMENT_NODE, DOCUMENT_FRAGMENT_NODE}
                         THEN QuerySelectorAll(d, c[i], selector.str) ELSE <<>>]
         IN [dom |-> d, this |-> c, ret |-> RetColl(PushEach(d, <<>>, found))]
    ELSE IF selector.kind = "function"
    THEN [dom |-> d, this |-> c, ret |-> ArrayFind(d, c, selector.fn, 1)]
    ELSE [dom |-> d, this |-> c, ret |-> RetColl(<<>>)]

\* the forEach of clone(): every clone is a new node, pushed as it is made
RECURSIVE CloneLoop(_, _, _, _)
CloneLoop(d, items, deep, acc) ==
    IF items = <<>> THEN [dom |-> d, nodes |-> acc]
    ELSE IF HasProp(d, Head(items), "cloneNode")
    THEN LET k == CloneNode(d, Head(items), deep) IN
         CloneLoop(k.dom, Tail(items), deep, push(k.dom, acc, <<k.node>>).this)
    ELSE CloneLoop(d, Tail(items), deep, acc)

clone(d, c, deep) ==
    LET r == CloneLoop(d, c, deep, <<>>) IN [dom |-> r.dom, this |-> c, ret |-> RetColl(r.nodes)]

\* ------------------------------------------------ library: get-or-set
UndefArg == [kind |-> "undefined"]

\* this.some(item => eligible ? (returnValue = read(item), true) : false):
\* the index of the member the search stops at, 0 when it runs to the end
RECURSIVE SomeIndex(_, _, _, _)
\* (variant for C7: forEach in place of some, so that the last eligible member
\* is the one read)
SomeIndexLast(d, c, prop, i) ==
    LET hits == {j \in i .. Len(c) : HasProp(d, c[j], prop)} IN
    IF hits = {} THEN 0 ELSE CHOOSE j \in hits : \A k \in hits : k <= j

SomeIndex(d, c, prop, i) ==
    IF i > Len(c) THEN 0
    ELSE IF HasProp(d, c[i], prop) THEN i
    ELSE SomeIndex(d, c, prop, i + 1)

RECURSIVE AttrLoop(_, _, _, _)
\* (variant for C8: the loop stops at the first eligible member)
AttrLoopFirstOnly(d, items, name, v) ==
    IF items = <<>> THEN d
    ELSE IF HasProp(d, Head(items), "setAttribute") THEN SetAttribute(d, Head(items), name, v)
    ELSE AttrLoop(d, Tail(items), name, v)

AttrLoop(d, items, name, v) ==
    IF items = <<>> THEN d
    ELSE AttrLoop(IF HasProp(d, Head(items), "setAttribute") THEN SetAttribute(d, Head(items), name, v) ELSE d,
                  Tail(items), name, v)

attr(d, c, name, value) ==
    IF value.kind # "undefined"
    THEN [dom |-> AttrLoop(d, c, name, value.str), this |-> c, ret |-> RetThis]
    ELSE LET i == SomeIndex(d, c, "getAttribute", 1) IN
         [dom |-> d, this |-> c, ret |-> RetStr(IF i = 0 THEN JSNull ELSE GetAttribute(d, c[i], name))]

\* removeAttr(...names): every name is removed from every Element member
RECURSIVE RemoveNames(_, _, _)
RemoveNames(d, item, names) ==
    IF names = <<>> THEN d
    ELSE RemoveNames(RemoveAttribute(d, item, Head(names)), item, Tail(names))

RECURSIVE RemoveAttrLoop(_, _, _)
RemoveAttrLoop(d, items, names) ==
    IF items = <<>> THEN d
    ELSE RemoveAttrLoop(IF HasProp(d, Head(items), "removeAttribute")
                        THEN RemoveNames(d, Head(items), names) ELSE d,
                        Tail(items), names)

removeAttr(d, c, names) == [dom |-> RemoveAttrLoop(d, c, names), this |-> c, ret |-> RetThis]

\* key.replace(/-([a-z])/g, (_match, letter) => letter.toUpperCase()) on a
\* key given as a list of characters
LowerCase == {"a", "b", "k"}
ToUpperCase(ch) == IF ch = "a" THEN "A" ELSE IF ch = "b" THEN "B" ELSE IF ch = "k" THEN "K" ELSE ch
RECURSIVE camelCaseKey(_)
camelCaseKey(key) ==
    IF key = <<>> THEN <<>>
    ELSE IF key[1] = "-" /\ Len(key) >= 2 /\ key[2] \in LowerCase
    THEN <<ToUpperCase(key[2])>> \o camelCaseKey(SubSeq(key, 3, Len(key)))
    ELSE <<key[1]>> \o camelCaseKey(Tail(key))

RECURSIVE DataLoop(_, _, _, _)
DataLoop(d, items, key, v) ==
    IF items = <<>> THEN d
    ELSE DataLoop(IF HasProp(d, Head(items), "dataset") THEN SetData(d, Head(items), key, v) ELSE d,
                  Tail(items), key, v)

\* (variant for C28: the setter stores under the key as given)
dataSetsDashKey(d, c, key, value) ==
    IF key.kind # "undefined"
    THEN IF value.kind # "undefined"
         THEN [dom |-> DataLoop(d, c, key.str, value.str), this |-> c, ret |-> RetThis]
         ELSE LET i == SomeIndex(d, c, "dataset", 1) IN
              [dom |-> d, this |-> c,
               ret |-> RetStr(IF i = 0 THEN Undefined ELSE d.dataset[c[i]][camelCaseKey(key.str)])]
    ELSE LET i == SomeIndex(d, c, "dataset", 1) IN
         [dom |-> d, this |-> c, ret |-> RetObj(IF i = 0 THEN NoData ELSE d.dataset[c[i]])]

data(d, c, key, value) ==
    IF key.kind # "undefined"
    THEN IF value.kind # "undefined"
         THEN [dom |-> DataLoop(d, c, camelCaseKey(key.str), value.str), this |-> c, ret |-> RetThis]
         ELSE LET i == SomeIndex(d, c, "dataset", 1) IN
              [dom |-> d, this |-> c,
               ret |-> RetStr(IF i = 0 THEN Undefined ELSE d.dataset[c[i]][camelCaseKey(key.str)])]
    ELSE LET i == SomeIndex(d, c, "dataset", 1) IN
         [dom |-> d, this |-> c, ret |-> RetObj(IF i = 0 THEN NoData ELSE d.dataset[c[i]])]

RECURSIVE HtmlLoop(_, _, _)
HtmlLoop(d, items, v) ==
    IF items = <<>> THEN d
    ELSE HtmlLoop(IF HasProp(d, Head(items), "innerHTML") THEN SetInnerHTML(d, Head(items), v) ELSE d,
                  Tail(items), v)

\* html(): markup values are token lists
html(d, c, value) ==
    IF value.kind # "undefined"
    THEN [dom |-> HtmlLoop(d, c, value.str), this |-> c, ret |-> RetThis]
    ELSE LET i == SomeIndex(d, c, "innerHTML", 1) IN
         [dom |-> d, this |-> c,
          ret |-> RetMarkup(IF i = 0 THEN <<>> ELSE InnerHTML(d, c[i]))]

RECURSIVE TextLoop(_, _, _)
TextLoop(d, items, v) ==
    IF items = <<>> THEN d
    ELSE TextLoop(IF HasProp(d, Head(items), "textContent") THEN SetTextContent(d, Head(items), v) ELSE d,
                  Tail(items), v)

text(d, c, value) ==
    IF value.kind # "undefined"
    THEN [dom |-> TextLoop(d, c, value.str), this |-> c, ret |-> RetThis]
    ELSE LET i == SomeIndex(d, c, "textContent", 1) IN
         [dom |-> d, this |-> c, ret |-> RetStr(IF i = 0 THEN JSNull ELSE TextContent(d, c[i]))]
\* ----------------------------------------------------------- library: empty
\* (variant for C29: the loop asks for firstElementChild)
HasElementChildToRemove(d, item) == HasProp(d, item, "firstChild") /\ ElementChildCount(d, item) > 0

\* 'firstChild' in item, and the test of the loop, item.firstChild !== null
HasChildToRemove(d, item) == HasProp(d, item, "firstChild") /\ FirstChild(d, item) # Null

\* CommonJS build: this.contents().remove()
emptyCjs(d, c) == [dom |-> remove(d, contents(d, c).ret.coll).dom, this |-> c, ret |-> RetThis]

\* ------------------------------------------- library: addClass, removeClass
\* addClass(...names): item.classList.add(...names) on every Element member
RECURSIVE AddClassLoop(_, _, _)
AddClassLoop(d, items, names) ==
    IF items = <<>> THEN d
    ELSE AddClassLoop(IF HasProp(d, Head(items), "classList")
                      THEN [d EXCEPT !.classList[Head(items)] = @ \cup Range(names)] ELSE d,
                      Tail(items), names)
addClass(d, c, names) == [dom |-> AddClassLoop(d, c, names), this |-> c, ret |-> RetThis]

\* removeClass(...names): item.classList.remove(...names) on every Element member
RECURSIVE RemoveClassLoop(_, _, _)
RemoveClassLoop(d, items, names) ==
    IF items = <<>> THEN d
    ELSE RemoveClassLoop(IF HasProp(d, Head(items), "classList")
                         THEN [d EXCEPT !.classList[Head(items)] = @ \ Range(names)] ELSE d,
                         Tail(items), names)
removeClass(d, c, names) == [dom |-> RemoveClassLoop(d, c, names), this |-> c, ret |-> RetThis]

\* ----------------------------------------------------- library: toggleClass
BoolArg(b) == [kind |-> "boolean", bool |-> b]
\* DOMTokenList.toggle(name, force): with force left out the token is flipped,
\* with true it is added, with false removed
ClassListToggle(d, n, name, force) ==
    IF force.kind = "undefined"
    THEN [d EXCEPT !.classList[n] = IF name \in @ THEN @ \ {name} ELSE @ \cup {name}]
    ELSE [d EXCEPT !.classList[n] = IF force.bool THEN @ \cup {name} ELSE @ \ {name}]

RECURSIVE ToggleLoop(_, _, _, _)
ToggleLoop(d, items, name, force) ==
    IF items = <<>> THEN d
    ELSE ToggleLoop(IF HasProp(d, Head(items), "classList") THEN ClassListToggle(d, Head(items), name, force) ELSE d,
                    Tail(items), name, force)
toggleClass(d, c, name, force) == [dom |-> ToggleLoop(d, c, name, force), this |-> c, ret |-> RetThis]

\* CommonJS build: force defaults to null, and both branches of the test
\* `force === null` call item.classList.toggle(name)
RECURSIVE ToggleLoopCjs(_, _, _)
ToggleLoopCjs(d, items, name) ==
    IF items = <<>> THEN d
    ELSE ToggleLoopCjs(IF isElement(d, Head(items)) THEN ClassListToggle(d, Head(items), name, UndefArg) ELSE d,
                       Tail(items), name)
toggleClassCjs(d, c, name, force) ==
    [dom |-> IF force.kind = "undefined" THEN ToggleLoopCjs(d, c, name) ELSE ToggleLoopCjs(d, c, name),
     this |-> c, ret |-> RetThis]

\* ---------------------------------------------------------- library: events
\* on(event, listener, options): options is false or {once: true}
RECURSIVE OnLoop(_, _, _, _, _)
OnLoop(d, items, event, listener, once) ==
    IF items = <<>> THEN d
    ELSE OnLoop(AddEventListenerOnce(d, Head(items), event, listener, once), Tail(items), event, listener, once)

on(d, c, event, listener, once) == [dom |-> OnLoop(d, c, event, listener, once), this |-> c, ret |-> RetThis]

one(d, c, event, listener) == on(d, c, event, listener, TRUE)

RECURSIVE OffLoop(_, _, _, _)
OffLoop(d, items, event, listener) ==
    IF items = <<>> THEN d
    ELSE OffLoop(RemoveEventListener(d, Head(items), event, listener), Tail(items), event, listener)
off(d, c, event, listener) == [dom |-> OffLoop(d, c, event, listener), this |-> c, ret |-> RetThis]

\* trigger(event): the one CustomEvent is dispatched at each member in turn
RECURSIVE TriggerLoop(_, _, _)
TriggerLoop(d, items, event) ==
    IF items = <<>> THEN d
    ELSE TriggerLoop(DispatchEvent(d, Head(items), event), Tail(items), event)
trigger(d, c, event) == [dom |-> TriggerLoop(d, c, event), this |-> c, ret |-> RetThis]

\* ----------------------------------------------------------- library: ready
\* item.readyState: 'loading', 'interactive' or 'complete' on a Document, a
\* number on a media element and on an XMLHttpRequest
ReadyState(d, item) ==
    IF NodeTypeOf(d, item) = DOCUMENT_NODE THEN d.readyState[item] ELSE "0"
\* (variant for C18: with a document that is not loading the listener is
\* called at once)
RECURSIVE ReadyLoopCallsNow(_, _, _)
ReadyLoopCallsNow(d, items, listener) ==
    IF items = <<>> THEN d
    ELSE ReadyLoopCallsNow(IF HasProp(d, Head(items), "readyState")
                           THEN (IF ReadyState(d, Head(items)) = "loading"
                                 THEN AddEventListener(d, Head(items), listener)
                                 ELSE [d EXCEPT !.invoked = Append(@, listener)])
                           ELSE d,
                           Tail(items), listener)

RECURSIVE ReadyLoop(_, _, _)
ReadyLoop(d, items, listener) ==
    IF items = <<>> THEN d
    ELSE ReadyLoop(IF HasProp(d, Head(items), "readyState")
                   THEN (IF ReadyState(d, Head(items)) = "loading"
                         THEN AddEventListener(d, Head(items), listener)
                         ELSE SetTimeout(d, listener))
                   ELSE d,
                   Tail(items), listener)

ready(d, c, listener) == [dom |-> ReadyLoop(d, c, listener), this |-> c, ret |-> RetThis]

\* ready(listener) of the CommonJS build, which tests EagleJS.isDocument(item)
RECURSIVE ReadyLoopCjs(_, _, _)
ReadyLoopCjs(d, items, listener) ==
    IF items = <<>> THEN d
    ELSE ReadyLoopCjs(IF isDocument(d, Head(items))
                      THEN (IF ReadyState(d, Head(items)) = "loading"
                            THEN AddEventListener(d, Head(items), listener)
                            ELSE SetTimeout(d, listener))
                      ELSE d,
                      Tail(items), listener)

readyCjs(d, c, listener) == [dom |-> ReadyLoopCjs(d, c, listener), this |-> c, ret |-> RetThis]

\* ------------------------------------------------- library: the constructor
\* A string handed to the constructor is a list of characters.
\* \s and the line terminators that . does not match, of those characters
WhiteSpace == {" ", "\n"}
LineTerminators == {"\n"}
Letters == {"a", "b", "c", "d", "h", "i", "l", "o", "s", "v", "y"}

\* /^\s*<.+>\s*$/.test(selector)
IsHtmlString(s) ==
    \E i, j \in 1 .. Len(s) :
        /\ i + 1 < j
        /\ s[i] = "<" /\ s[j] = ">"
        /\ \A k \in 1 .. i - 1 : s[k] \in WhiteSpace
        /\ \A k \in i + 1 .. j - 1 : s[k] \notin LineTerminators
        /\ \A k \in j + 1 .. Len(s) : s[k] \in WhiteSpace

RECURSIVE Join(_)
Join(s) == IF s = <<>> THEN "" ELSE Head(s) \o Join(Tail(s))
RECURSIVE TrimStart(_)
TrimStart(s) == IF s # <<>> /\ Head(s) \in WhiteSpace THEN TrimStart(Tail(s)) ELSE s
Trim(s) == Reverse(TrimStart(Reverse(TrimStart(s))))

\* The selector a string is read as by querySelectorAll, which takes the
\* selectors of the model (and body) with white space around them and raises
\* a SyntaxError for every other string of the model.
SelectorOf(s) == Join(Trim(s))
IsSelector(s) == SelectorOf(s) \in Selectors \cup {"body"}

\* The HTML tokenizer on the strings of the model: start tags (attributes are
\* not read), end tags, comments, and character data one character a token.
\* A tag the input ends in is dropped.
FirstFrom(s, i, S) ==
    IF \E k \in i .. Len(s) : s[k] \in S THEN Min({k \in i .. Len(s) : s[k] \in S}) ELSE 0
CommentEnd(s) ==
    LET ends == {k \in 3 .. Len(s) - 2 : s[k] = "-" /\ s[k + 1] = "-" /\ s[k + 2] = ">"}
    IN IF ends = {} THEN 0 ELSE Min(ends)
RECURSIVE Tokenize(_)
Tokenize(s) ==
    IF s = <<>> THEN <<>>
    ELSE IF Len(s) >= 2 /\ s[1] = "<" /\ s[2] \in Letters
    THEN IF FirstFrom(s, 2, {">"}) = 0 THEN <<>>
         ELSE <<OpenTag(Join(SubSeq(s, 2, FirstFrom(s, 2, WhiteSpace \cup {"/", ">"}) - 1)))>>
                  \o Tokenize(SubSeq(s, FirstFrom(s, 2, {">"}) + 1, Len(s)))
    ELSE IF Len(s) >= 3 /\ s[1] = "<" /\ s[2] = "/" /\ s[3] \in Letters
    THEN IF FirstFrom(s, 3, {">"}) = 0 THEN <<>>
         ELSE <<CloseTag(Join(SubSeq(s, 3, FirstFrom(s, 3, WhiteSpace \cup {"/", ">"}) - 1)))>>
                  \o Tokenize(SubSeq(s, FirstFrom(s, 3, {">"}) + 1, Len(s)))
    ELSE IF Len(s) >= 4 /\ SubSeq(s, 1, 4) = <<"<", "!", "-", "-">>
    THEN IF CommentEnd(s) = 0 THEN <<CommentTok(Join(SubSeq(s, 5, Len(s))))>>
         ELSE <<CommentTok(Join(SubSeq(s, 5, CommentEnd(s) - 1)))>> \o Tokenize(SubSeq(s, CommentEnd(s) + 3, Len(s)))
    ELSE <<TextTok(Head(s))>> \o Tokenize(Tail(s))

\* document.implementation.createHTMLDocument(''): a new document
\*   #document > (doctype, html > (head > title > Text "", body))
\* No parser runs on it: its readyState is 'loading' and stays so.
CreateHTMLDocument(d) ==
    Only({Only({Only({Only({Only({Only({Only({
        [dom |-> IF body.dom.overflow THEN body.dom
                 ELSE [body.dom EXCEPT !.readyState[doc.node] = "loading",
                                       !.childNodes[doc.node] = <<doctype.node, root.node>>,
                                       !.childNodes[root.node] = <<head.node, body.node>>,
                                       !.childNodes[head.node] = <<title.node>>,
                                       !.childNodes[title.node] = <<txt.node>>],
         document |-> doc.node, body |-> body.node]
        : body \in {CreateNode(txt.dom, ELEMENT_NODE, "body", "")}})
        : txt \in {CreateTextNode(title.dom, "")}})
        : title \in {CreateNode(head.dom, ELEMENT_NODE, "title", "")}})
        : head \in {CreateNode(root.dom, ELEMENT_NODE, "head", "")}})
        : root \in {CreateNode(doctype.dom, ELEMENT_NODE, "html", "")}})
        : doctype \in {CreateNode(doc.dom, DOCUMENT_TYPE_NODE, "", "")}})
        : doc \in {CreateNode(d, DOCUMENT_NODE, "", "")}})

\* The document the HTML parser starts from: #document > html > (head, body),
\* without a doctype or a title.
NewHTMLDocument(d) ==
    Only({Only({Only({Only({
        [dom |-> IF body.dom.overflow THEN body.dom
                 ELSE [body.dom EXCEPT !.childNodes[doc.node] = <<root.node>>,
                                       !.childNodes[root.node] = <<head.node, body.node>>],
         document |-> doc.node, body |-> body.node]
        : body \in {CreateNode(head.dom, ELEMENT_NODE, "body", "")}})
        : head \in {CreateNode(root.dom, ELEMENT_NODE, "head", "")}})
        : root \in {CreateNode(doc.dom, ELEMENT_NODE, "html", "")}})
        : doc \in {CreateNode(d, DOCUMENT_NODE, "", "")}})

\* What the tree builder does with the tokens that come before <body> is
\* open: white space is dropped, a comment becomes a child of the document.
IsLead(tk) == tk.t = "comment" \/ (tk.t = "text" /\ tk.data \in WhiteSpace)
RECURSIVE SkipLead(_)
SkipLead(toks) == IF toks # <<>> /\ IsLead(Head(toks)) THEN SkipLead(Tail(toks)) ELSE toks
RECURSIVE LeadComments(_, _, _)
LeadComments(d, doc, toks) ==
    IF toks = <<>> \/ ~IsLead(Head(toks)) \/ d.overflow THEN d
    ELSE IF Head(toks).t = "text" THEN LeadComments(d, doc, Tail(toks))
    ELSE Only({LeadComments(IF c.dom.overflow THEN c.dom
                            ELSE [c.dom EXCEPT !.childNodes[doc] =
                                     SubSeq(@, 1, Len(@) - 1) \o <<c.node, @[Len(@)]>>],
                            doc, Tail(toks))
               : c \in {CreateNode(d, COMMENT_NODE, "", Head(toks).data)}})

\* new DOMParser().parseFromString(s, 'text/html')
ParseFromString(d, s) ==
    Only({Only({[dom |-> ParseInto(LeadComments(doc.dom, doc.document, toks), <<doc.body>>, SkipLead(toks)),
                 body |-> doc.body]
                : toks \in {Tokenize(s)}})
          : doc \in {NewHTMLDocument(d)}})

\* the default value of the context parameter
document == 1

\* The call has thrown: no Collection is handed back.
Threw(d) == [dom |-> d, this |-> <<>>, ret |-> RetThrew]
\* querySelectorAll / find with the string as it was passed
\* (variant for C14: only the first member of the context is queried)
QueryStringFirstOnly(d, c, s) ==
    IF ~IsSelector(s) /\ \E i \in 1 .. Len(c) : HasProp(d, c[i], "querySelectorAll") THEN Threw(d)
    ELSE [dom |-> d, this |-> querySelectorAll(d, IF c = <<>> THEN c ELSE <<c[1]>>, SelectorOf(s)).ret.coll, ret |-> RetThis]

QueryString(d, c, s) ==
    IF ~IsSelector(s) /\ \E i \in 1 .. Len(c) : HasProp(d, c[i], "querySelectorAll") THEN Threw(d)
    ELSE [dom |-> d, this |-> querySelectorAll(d, c, SelectorOf(s)).ret.coll, ret |-> RetThis]
FindString(d, c, s) ==
    IF ~IsSelector(s) /\ \E i \in 1 .. Len(c) : isParentNode(d, c[i]) THEN Threw(d)
    ELSE [dom |-> d, this |-> find(d, c, StrArg(SelectorOf(s))).ret.coll, ret |-> RetThis]

\* new EagleJS(selector, context): the TypeScript source
RECURSIVE EagleJS(_, _, _)

\* (variant for C17: an HTML string with a context that is no Document is
\* queried as a selector under the context)
ParsedOrQueried(d, s, context) ==
    IF context.kind = "item" /\ isDocument(d, context.item)
    THEN Only({[dom |-> p.dom, this |-> push(p.dom, <<>>, p.dom.childNodes[p.body]).this, ret |-> RetThis]
               : p \in {ParseFromString(d, s)}})
    ELSE Only({IF ctx.ret.kind = "threw" THEN ctx ELSE QueryString(ctx.dom, ctx.this, s)
               : ctx \in {EagleJS(d, context, ItemArg(document))}})

\* the branch of a string that looks like HTML: this.push(...doc.body.childNodes)
Parsed(d, s, context) ==
    Only({[dom |-> p.dom, this |-> push(p.dom, <<>>, p.dom.childNodes[p.body]).this, ret |-> RetThis]
          : p \in {ParseFromString(d, s)}})

EagleJS(d, selector, context) ==
    IF selector.kind # "string"
    THEN [dom |-> d, this |-> Construct(d, selector), ret |-> RetThis]
    ELSE IF IsHtmlString(selector.str) THEN Parsed(d, selector.str, context)
    ELSE Only({IF ctx.ret.kind = "threw" THEN ctx ELSE QueryString(ctx.dom, ctx.this, selector.str)
               : ctx \in {EagleJS(d, context, ItemArg(document))}})

\* new EagleJS(selector, context): the CommonJS build
RECURSIVE EagleJSCjs(_, _, _)
\* the branch of a string that looks like HTML:
\* new EagleJS('body', doc).html(selector).children() if the context is a
\* Document, and nothing otherwise
ParsedCjs(d, s, context) ==
    IF context.kind = "item" /\ isDocument(d, context.item)
    THEN Only({Only({Only({
             [dom |-> filled.dom, this |-> children(filled.dom, filled.this, NullArg).ret.coll, ret |-> RetThis]
             : filled \in {html(body.dom, body.this, StrArg(Tokenize(s)))}})
             : body \in {EagleJSCjs(doc.dom, StrArg(<<"b", "o", "d", "y">>), ItemArg(doc.document))}})
             : doc \in {CreateHTMLDocument(d)}})
    ELSE [dom |-> d, this |-> <<>>, ret |-> RetThis]

EagleJSCjs(d, selector, context) ==
    IF selector.kind # "string"
    THEN [dom |-> d, this |-> Construct(d, selector), ret |-> RetThis]
    ELSE IF IsHtmlString(selector.str) THEN ParsedCjs(d, selector.str, context)
    ELSE Only({IF ctx.ret.kind = "threw" THEN ctx ELSE FindString(ctx.dom, ctx.this, selector.str)
               : ctx \in {EagleJSCjs(d, context, ItemArg(document))}})

\* ================================================================ the machine
VARIABLES
    dom,    \* the host's nodes
    this,   \* the Collection the program holds and calls methods on
    ret,    \* what the last call returned
    call    \* the last call: its name, its arguments, and dom / this before it

vars == <<dom, this, ret, call>>

\* The document the program starts with:
\*   1 #document
\*     2 <html>
\*       3 <div id=a class=cls data-k=v>   5 "hi"
\*       4 <b id=b title=t>
\*       6 <!--c-->
\*   7 #document-fragment   8 <b class=cls>
\*   9 <div> (detached)
InitDom ==
    [EmptyDom EXCEPT
        !.nodeType = [n \in Nodes |->
            IF n \in {2, 3, 4, 8, 9} THEN ELEMENT_NODE
            ELSE IF n = 1 THEN DOCUMENT_NODE
            ELSE IF n = 5 THEN TEXT_NODE
            ELSE IF n = 6 THEN COMMENT_NODE
            ELSE IF n = 7 THEN DOCUMENT_FRAGMENT_NODE
            ELSE 0],
        !.childNodes = [n \in Nodes |->
            IF n = 1 THEN <<2>>
            ELSE IF n = 2 THEN <<3, 4, 6>>
            ELSE IF n = 3 THEN <<5>>
            ELSE IF n = 7 THEN <<8>>
            ELSE <<>>],
        !.tagName = [n \in Nodes |->
            IF n = 2 THEN "html" ELSE IF n \in {3, 9} THEN "div" ELSE IF n \in {4, 8} THEN "b" ELSE ""],
        !.nodeValue = [n \in Nodes |-> IF n = 5 THEN "hi" ELSE IF n = 6 THEN "c" ELSE ""],
        !.attrs = [n \in Nodes |->
            IF n = 3 THEN [NoAttrs EXCEPT !["id"] = "a"]
            ELSE IF n = 4 THEN [NoAttrs EXCEPT !["id"] = "b", !["title"] = "t"]
            ELSE NoAttrs],
        !.classList = [n \in Nodes |-> IF n \in {3, 8} THEN {"cls"} ELSE {}],
        !.readyState = [n \in Nodes |-> IF n = 1 THEN "complete" ELSE ""],
        !.contentLoaded = [n \in Nodes |-> n = 1],
        !.dataset = [n \in Nodes |-> IF n = 3 THEN [NoData EXCEPT ![<<"k">>] = "v"] ELSE NoData]]

\* the DOMItems the program puts into the Collections it starts with (the
\* document, <html>, the two elements in it, the text, the detached element,
\* the window), and all the values it can pass where a DOMItem is expected
Items == {1, 2, 3, 4, 5, 9, Window}

NoCall ==
    [op |-> "idle", list |-> <<>>, sel |-> NullArg, context |-> UndefArg, name |-> "", key |-> UndefArg,
     value |-> UndefArg, deep |-> FALSE, dom |-> InitDom, this |-> <<>>]
CallOf(op) == [NoCall EXCEPT !.op = op, !.dom = dom, !.this = this]

\* The program is between two calls: it has dropped what the last one returned.
Idle == call.op = "idle"
Continue ==
    /\ ~Idle
    /\ call' = NoCall /\ ret' = NoRet
    /\ UNCHANGED <<dom, this>>

\* c = c.method(...): the program goes on with the Collection it was handed
Adopt ==
    /\ ret.kind = "collection"
    /\ this' = ret.coll /\ call' = NoCall /\ ret' = NoRet
    /\ UNCHANGED dom

\* -------------------------------------------- Collection building (SpecColl)
\* The program builds Collections and keeps the one it built last.  The values
\* it passes are an element, a text node, the window, null and a plain object.
CollItems == {3, 5, Window}
CollValues == CollItems \cup {Null, PlainObject}

InitColl == dom = InitDom /\ this = <<>> /\ ret = NoRet /\ call = NoCall

\* this = new EagleJS(list)
New ==
    \E l \in SeqsUpTo(CollValues, MaxArgs) :
        /\ Idle
        /\ this' = Construct(dom, ListArg(l))
        /\ ret' = RetThis
        /\ call' = [CallOf("new") EXCEPT !.list = l]
        /\ UNCHANGED dom

\* this = new EagleJS(item)
NewItem ==
    \E v \in CollValues \ {Null} :
        /\ Idle
        /\ this' = Construct(dom, ItemArg(v))
        /\ ret' = RetThis
        /\ call' = [CallOf("new") EXCEPT !.list = <<v>>]
        /\ UNCHANGED dom

Push ==
    \E l \in SeqsUpTo(CollValues, MaxArgs) :
        /\ Idle
        /\ Len(this) + Len(l) <= MaxLen
        /\ LET r == push(dom, this, l) IN this' = r.this /\ ret' = r.ret
        /\ call' = [CallOf("push") EXCEPT !.list = l]
        /\ UNCHANGED dom

Unshift ==
    \E l \in SeqsUpTo(CollValues, MaxArgs) :
        /\ Idle
        /\ Len(this) + Len(l) <= MaxLen
        /\ LET r == unshift(dom, this, l) IN this' = r.this /\ ret' = r.ret
        /\ call' = [CallOf("unshift") EXCEPT !.list = l]
        /\ UNCHANGED dom

\* this.concat(...args): each argument a value, the receiver itself, or
\* another array
ConcatArgs ==
    {ItemArg(v) : v \in CollItems \cup {PlainObject}}
        \cup {ListArg(<<3, 5>>), ListArg(<<Window, 3>>), ListArg(<<>>), ListArg(<<Null, 5>>)}
Concat ==
    \E a \in SeqsUpTo(ConcatArgs \cup {ListArg(this)}, MaxArgs) :
        /\ Idle
        /\ Len(ArrayConcat(this, a)) <= MaxLen
        /\ LET r == concat(dom, this, a) IN this' = r.this /\ ret' = r.ret
        /\ call' = [CallOf("concat") EXCEPT !.list = a]
        /\ UNCHANGED dom

NextColl == New \/ NewItem \/ Push \/ Unshift \/ Concat \/ Continue \/ Adopt
SpecColl == InitColl /\ [][NextColl]_vars
\* ------------------------------------------------ Receivers of the other specs
\* The program holds a Collection it built from a list of DOMItems with the
\* constructor, over the start document.
Receivers == {Construct(InitDom, ListArg(l)) : l \in SeqsUpTo(Items, MaxLen)}
InitRecv == dom = InitDom /\ this \in Receivers /\ ret = NoRet /\ call = NoCall

\* a method result r = [dom, this, ret] becomes the next state; a call that
\* would need more node identities than the pool holds is left out
Returns(r) == \E v \in {r} : ~v.dom.overflow /\ dom' = v.dom /\ this' = v.this /\ ret' = v.ret

\* ------------------------------------------------ Content insertion (SpecInsert)
\* The content inputs of a call: the text 'x', or a node of the start document
\* (3 an element with a child, 5 that child, 7 a fragment, 8 its child, 9 a
\* detached element); one input, none, or two.
ContentInputs == {StrArg("x")} \cup {ItemArg(n) : n \in {3, 5, 7, 8, 9}}
ContentPairs == {StrArg("x"), StrArg("y"), ItemArg(5), ItemArg(9)}
Contents == {<<>>} \cup {<<a>> : a \in ContentInputs} \cup {<<a, b>> : a, b \in ContentPairs}

After ==
    \E content \in Contents :
        /\ Idle
        /\ Returns(after(dom, this, content))
        /\ call' = [CallOf("after") EXCEPT !.list = content]

Before ==
    \E content \in Contents :
        /\ Idle
        /\ Returns(before(dom, this, content))
        /\ call' = [CallOf("before") EXCEPT !.list = content]

AppendTo ==
    \E content \in Contents :
        /\ Idle
        /\ Returns(append(dom, this, content))
        /\ call' = [CallOf("append") EXCEPT !.list = content]

Prepend ==
    \E content \in Contents :
        /\ Idle
        /\ Returns(prepend(dom, this, content))
        /\ call' = [CallOf("prepend") EXCEPT !.list = content]

ReplaceWith ==
    \E content \in Contents :
        /\ Idle
        /\ Returns(replaceWith(dom, this, content))
        /\ call' = [CallOf("replaceWith") EXCEPT !.list = content]

Remove ==
    /\ Idle
    /\ Returns(remove(dom, this))
    /\ call' = CallOf("remove")

NextInsert == After \/ Before \/ AppendTo \/ Prepend \/ ReplaceWith \/ Remove
SpecInsert == InitRecv /\ [][NextInsert]_vars

\* ------------------------------------------------------ Queries (SpecQuery)
\* The optional filter of children / parent / next / prev / siblings, and the
\* matchers handed to filter / not: a selector string, a callback, a list
\* of Items, a single Item.
Filters == {NullArg} \cup {StrArg(sel) : sel \in Selectors}
Matchers ==
    {StrArg(sel) : sel \in Selectors} \cup {FnArg(f) : f \in Callbacks}
        \cup {ListArg(l) : l \in SeqsUpTo({3, 5}, MaxArgs)} \cup {ItemArg(v) : v \in {3, 5, Window}}

GetChildren ==
    \E flt \in Filters :
        /\ Idle
        /\ Returns(children(dom, this, flt))
        /\ call' = [CallOf("children") EXCEPT !.sel = flt]

GetParent ==
    \E flt \in Filters :
        /\ Idle
        /\ Returns(parent(dom, this, flt))
        /\ call' = [CallOf("parent") EXCEPT !.sel = flt]

GetNext ==
    \E flt \in Filters :
        /\ Idle
        /\ Returns(next(dom, this, flt))
        /\ call' = [CallOf("next") EXCEPT !.sel = flt]

GetPrev ==
    \E flt \in Filters :
        /\ Idle
        /\ Returns(prev(dom, this, flt))
        /\ call' = [CallOf("prev") EXCEPT !.sel = flt]

GetSiblings ==
    \E flt \in Filters :
        /\ Idle
        /\ Returns(siblings(dom, this, flt))
        /\ call' = [CallOf("siblings") EXCEPT !.sel = flt]

GetContents ==
    /\ Idle
    /\ Returns(contents(dom, this))
    /\ call' = CallOf("contents")

GetClosest ==
    \E sel \in Selectors :
        /\ Idle
        /\ Returns(closest(dom, this, sel))
        /\ call' = [CallOf("closest") EXCEPT !.sel = StrArg(sel)]

QueryOne ==
    \E sel \in Selectors :
        /\ Idle
        /\ Returns(querySelector(dom, this, sel))
        /\ call' = [CallOf("querySelector") EXCEPT !.sel = StrArg(sel)]

QueryAll ==
    \E sel \in Selectors :
        /\ Idle
        /\ Returns(querySelectorAll(dom, this, sel))
        /\ call' = [CallOf("querySelectorAll") EXCEPT !.sel = StrArg(sel)]

Find ==
    \E m \in {StrArg(sel) : sel \in Selectors} \cup {FnArg(f) : f \in Callbacks} :
        /\ Idle
        /\ Returns(find(dom, this, m))
        /\ call' = [CallOf("find") EXCEPT !.sel = m]

Clone ==
    \E deep \in BOOLEAN :
        /\ Idle
        /\ Returns(clone(dom, this, deep))
        /\ call' = [CallOf("clone") EXCEPT !.deep = deep]

Filter ==
    \E m \in Matchers :
        /\ Idle
        /\ Returns(filter(dom, this, m))
        /\ call' = [CallOf("filter") EXCEPT !.sel = m]

Not ==
    \E m \in Matchers :
        /\ Idle
        /\ Returns(not(dom, this, m))
        /\ call' = [CallOf("not") EXCEPT !.sel = m]

Is ==
    \E m \in Matchers :
        /\ Idle
        /\ Returns(is(dom, this, m))
        /\ call' = [CallOf("is") EXCEPT !.sel = m]

HasClass ==
    \E name \in {"cls", "none"} :
        /\ Idle
        /\ Returns(hasClass(dom, this, name))
        /\ call' = [CallOf("hasClass") EXCEPT !.name = name]

NextQuery ==
    \/ GetChildren \/ GetParent \/ GetNext \/ GetPrev \/ GetSiblings \/ GetContents
    \/ GetClosest \/ QueryOne \/ QueryAll \/ Find \/ Clone \/ Filter \/ Not \/ Is \/ HasClass
SpecQuery == InitRecv /\ [][NextQuery]_vars

\* ------------------------------------------------ Get-or-set (SpecAccess)
\* The value argument: left out, or a string; markup for html().
TextValues == {UndefArg, StrArg("z"), StrArg("")}
KeyInputs == {<<"k">>, <<"a", "-", "b">>, <<"a", "-", "-", "b">>, <<"-">>}
Markups ==
    {<<>>, <<TextTok("z")>>, <<OpenTag("b"), TextTok("z"), CloseTag("b")>>, <<OpenTag("i")>>,
     <<CommentTok("z"), CloseTag("b")>>}

Attr ==
    \E name \in AttrNames, value \in TextValues :
        /\ Idle
        /\ Returns(attr(dom, this, name, value))
        /\ call' = [CallOf("attr") EXCEPT !.name = name, !.value = value]

Data ==
    \E key \in {UndefArg} \cup {StrArg(k) : k \in KeyInputs}, value \in TextValues :
        /\ Idle
        /\ Returns(data(dom, this, key, value))
        /\ call' = [CallOf("data") EXCEPT !.key = key, !.value = value]

Html ==
    \E value \in {UndefArg} \cup {StrArg(m) : m \in Markups} :
        /\ Idle
        /\ Returns(html(dom, this, value))
        /\ call' = [CallOf("html") EXCEPT !.value = value]

Text ==
    \E value \in TextValues :
        /\ Idle
        /\ Returns(text(dom, this, value))
        /\ call' = [CallOf("text") EXCEPT !.value = value]

\* after attr(name, v), data(key, v) or text(v) the program calls the getter
\* with the same name or key; the call keeps the setter's arguments and names
\* the setter
ThenGet ==
    /\ call.op \in {"attr", "data", "text"}
    /\ call.value.kind = "string"
    /\ call.op = "data" => call.key.kind = "string"
    /\ ret.kind = "this"
    /\ Returns(IF call.op = "attr" THEN attr(dom, this, call.name, UndefArg)
               ELSE IF call.op = "data" THEN data(dom, this, call.key, UndefArg)
               ELSE text(dom, this, UndefArg))
    /\ call' = [call EXCEPT !.op = "get", !.sel = StrArg(call.op)]

\* removeAttr(...names), as the first call or after attr(name, v) has set
\* an attribute
RemoveAttr ==
    \E names \in SeqsUpTo(AttrNames, MaxArgs) :
        /\ Idle \/ (call.op = "attr" /\ call.value.kind = "string" /\ ret.kind = "this")
        /\ Returns(removeAttr(dom, this, names))
        /\ call' = [CallOf("removeAttr") EXCEPT !.list = names]

\* The start document of these calls has a doctype (node 10) in front of
\* <html>, and the program also holds a detached Element that is in no
\* namespace (node 11, made with createElementNS) and so has no dataset.
AccessDom ==
    [InitDom EXCEPT !.nodeType[10] = DOCUMENT_TYPE_NODE,
                    !.childNodes[document] = <<10, 2>>,
                    !.nodeType[11] = ELEMENT_NODE,
                    !.tagName[11] = "x",
                    !.namespaceURI[11] = ""]
AccessItems == Items \cup {10, 11}
InitAccess ==
    /\ dom = AccessDom
    /\ this \in {Construct(AccessDom, ListArg(l)) : l \in SeqsUpTo(AccessItems, MaxLen)}
    /\ ret = NoRet
    /\ call = NoCall

NextAccess == Attr \/ Data \/ Html \/ Text \/ ThenGet \/ RemoveAttr
SpecAccess == InitAccess /\ [][NextAccess]_vars

\* ------------------------------------------------ Construction (SpecConstruct)
\* The program constructs one Collection, with either build, and may then read
\* its text.
\* Longest string of the family that is passed in full.
MaxChars == 3
RegexChars == {" ", "\n", "<", ">", "1"}
\* 'b', '*', '.cls', '#a', ' b ', '', '<b>', '<b></b>', '<div>hi</div>',
\* '<b></b>hi<b></b>', '<b></b><!--c--> ', '<!--c--><b></b>', '<div>\n</div>',
\* ' <1>\n', '\n<b> '
SomeStrings ==
    {<<"b">>, <<"*">>, <<".", "c", "l", "s">>, <<"#", "a">>, <<" ", "b", " ">>, <<>>,
     <<"<", "b", ">">>,
     <<"<", "b", ">", "<", "/", "b", ">">>,
     <<"<", "d", "i", "v", ">", "h", "i", "<", "/", "d", "i", "v", ">">>,
     <<"<", "b", ">", "<", "/", "b", ">", "h", "i", "<", "b", ">", "<", "/", "b", ">">>,
     <<"<", "b", ">", "<", "/", "b", ">", "<", "!", "-", "-", "c", "-", "-", ">", " ">>,
     <<"<", "!", "-", "-", "c", "-", "-", ">", "<", "b", ">", "<", "/", "b", ">">>,
     <<"<", "d", "i", "v", ">", "\n", "<", "/", "d", "i", "v", ">">>,
     <<" ", "<", "1", ">", "\n">>,
     <<"\n", "<", "b", ">", " ">>}
SelectorInputs ==
    {NullArg} \cup {ItemArg(v) : v \in CollValues \ {Null}}
        \cup {ListArg(l) : l \in SeqsUpTo(CollValues, MaxArgs)}
        \cup {StrArg(s) : s \in SomeStrings}
\* the document (which is what an omitted context is), an element, a text, a
\* fragment, a detached element, the window; lists of the document, <html> and
\* the fragment; a selector, an HTML string and a string that is neither
ContextInputs ==
    {ItemArg(v) : v \in {document, 3, 5, 7, 9, Window}}
        \cup {ListArg(l) : l \in SeqsUpTo({1, 2, 7}, MaxArgs)}
        \cup {StrArg(s) : s \in {<<"*">>, <<"b">>, <<"<", "b", ">">>, <<"<">>}}

InitConstruct == dom = InitDom /\ this = <<>> /\ ret = NoRet /\ call = NoCall

\* this = new EagleJS(selector, context), TypeScript source
NewEagleJS ==
    \E selector \in SelectorInputs, context \in ContextInputs :
        /\ Idle
        /\ Returns(EagleJS(dom, selector, context))
        /\ call' = [CallOf("EagleJS") EXCEPT !.sel = selector, !.context = context]

\* this = new EagleJS(selector, context), CommonJS build
NewEagleJSCjs ==
    \E selector \in SelectorInputs, context \in ContextInputs :
        /\ Idle
        /\ Returns(EagleJSCjs(dom, selector, context))
        /\ call' = [CallOf("EagleJSCjs") EXCEPT !.sel = selector, !.context = context]

\* the same with every string of up to MaxChars characters out of white
\* space, a line break, < > and a digit, under the document and an element
NewFromString ==
    \E s \in SeqsUpTo(RegexChars, MaxChars), context \in {ItemArg(document), ItemArg(2)} :
        /\ Idle
        /\ Returns(EagleJS(dom, StrArg(s), context))
        /\ call' = [CallOf("EagleJS") EXCEPT !.sel = StrArg(s), !.context = context]
NewFromStringCjs ==
    \E s \in SeqsUpTo(RegexChars, MaxChars), context \in {ItemArg(document), ItemArg(2)} :
        /\ Idle
        /\ Returns(EagleJSCjs(dom, StrArg(s), context))
        /\ call' = [CallOf("EagleJSCjs") EXCEPT !.sel = StrArg(s), !.context = context]

\* this.text() on the Collection just constructed; the call keeps the
\* constructor's arguments and names the build
ThenText ==
    /\ call.op \in {"EagleJS", "EagleJSCjs"}
    /\ ret.kind = "this"
    /\ Returns(text(dom, this, UndefArg))
    /\ call' = [call EXCEPT !.op = "text", !.name = call.op]

NextConstruct == NewEagleJS \/ NewEagleJSCjs \/ NewFromString \/ NewFromStringCjs \/ ThenText
SpecConstruct == InitConstruct /\ [][NextConstruct]_vars

\* ------------------------------------------------ ready (SpecReady)
\* The program holds a Collection of the document and an element (in any
\* order, repeats included), or one of the other lists below, while the
\* document loads, and calls
\* ready() from tasks of its own; between and after them the host moves the
\* document on, dispatches DOMContentLoaded and runs the timers.
\* Most callbacks that are queued or have run, all together.
MaxTasks == 4
ReadyItems == {document, 3}
\* The page also has a <video> element (node 9), an XMLHttpRequest and a
\* second document, made with createHTMLDocument, which the host never
\* moves out of 'loading' and never sends DOMContentLoaded; the program may
\* hold the request and the <video>, the document and the request, or both
\* documents.
Loading ==
    [InitDom EXCEPT !.readyState[document] = "loading", !.contentLoaded[document] = FALSE,
                    !.tagName[9] = "video"]
OtherDocument == CreateHTMLDocument(Loading).document
ReadyDom == CreateHTMLDocument(Loading).dom
OtherReadyLists == {<<Request, 9>>, <<document, Request>>, <<document, OtherDocument>>}
InitReady ==
    /\ dom = ReadyDom
    /\ this \in {Construct(ReadyDom, ListArg(l)) : l \in SeqsUpTo(ReadyItems, MaxLen) \cup OtherReadyLists}
    /\ ret = NoRet
    /\ call = NoCall

\* the program notes the order in which it hands its listeners to ready() on
\* a Collection that holds a Document
Noted(d, c, listener) ==
    IF (\E i \in 1 .. Len(c) : NodeTypeOf(d, c[i]) = DOCUMENT_NODE) /\ ~Includes(d.readyOrder, listener)
    THEN [d EXCEPT !.readyOrder = Append(@, listener)]
    ELSE d
Ready ==
    \E listener \in Listeners :
        /\ Idle
        /\ Len(dom.timers) + Len(dom.invoked) + Len(dom.listeners[document]) + Len(this) <= MaxTasks
        /\ Returns(ready(Noted(dom, this, listener), this, listener))
        /\ call' = [CallOf("ready") EXCEPT !.name = listener]

\* the same call in the CommonJS build
ReadyCjs ==
    \E listener \in Listeners :
        /\ Idle
        /\ Len(dom.timers) + Len(dom.invoked) + Len(dom.listeners[document]) + Len(this) <= MaxTasks
        /\ Returns(readyCjs(Noted(dom, this, listener), this, listener))
        /\ call' = [CallOf("readyCjs") EXCEPT !.name = listener]

\* the parser has come to the end of the document
BecomeInteractive ==
    /\ dom.readyState[document] = "loading"
    /\ dom' = [dom EXCEPT !.readyState[document] = "interactive"]
    /\ UNCHANGED <<this, ret, call>>

\* the host dispatches DOMContentLoaded: the listeners run in the order they
\* were registered in
DOMContentLoaded ==
    /\ dom.readyState[document] = "interactive"
    /\ ~dom.contentLoaded[document]
    /\ dom' = [dom EXCEPT !.contentLoaded[document] = TRUE, !.invoked = @ \o dom.listeners[document]]
    /\ UNCHANGED <<this, ret, call>>

BecomeComplete ==
    /\ dom.readyState[document] = "interactive"
    /\ dom.contentLoaded[document]
    /\ dom' = [dom EXCEPT !.readyState[document] = "complete"]
    /\ UNCHANGED <<this, ret, call>>

\* a turn of the event loop that runs the timer queued first
RunTimer ==
    /\ dom.timers # <<>>
    /\ dom' = [dom EXCEPT !.timers = Tail(@), !.invoked = Append(@, Head(dom.timers))]
    /\ UNCHANGED <<this, ret, call>>

NextReady == Ready \/ ReadyCjs \/ Continue \/ BecomeInteractive \/ DOMContentLoaded \/ BecomeComplete \/ RunTimer
SpecReady == InitReady /\ [][NextReady]_vars
\* The event loop runs every timer that is due, and a document that has been
\* parsed gets its DOMContentLoaded; whether parsing ends is left open.
SpecReadyFair == SpecReady /\ WF_vars(RunTimer) /\ WF_vars(DOMContentLoaded)
\* the program that runs the CommonJS build only
NextReadyCjs == ReadyCjs \/ Continue \/ BecomeInteractive \/ DOMContentLoaded \/ BecomeComplete \/ RunTimer
SpecReadyCjsFair == InitReady /\ [][NextReadyCjs]_vars /\ WF_vars(RunTimer) /\ WF_vars(DOMContentLoaded)

\* --------------------------------------------------------- empty (SpecEmpty)
\* One call of empty() on a receiver of the start document.  The call of the
\* TypeScript source is followed step by step: call.list holds the members
\* the forEach has still to visit, and ret stays empty until the call
\* returns.  The CommonJS build has no loop of its own and is one step.
Running == call.op = "empty" /\ ret.kind = "none"
Empty ==
    /\ Idle
    /\ call' = [CallOf("empty") EXCEPT !.list = this]
    /\ UNCHANGED <<dom, this, ret>>

\* one turn of the while loop: item.removeChild(item.firstChild)
EmptyRemove ==
    /\ Running
    /\ call.list # <<>>
    /\ HasChildToRemove(dom, Head(call.list))
    /\ dom' = RemoveChild(dom, Head(call.list), FirstChild(dom, Head(call.list)))
    /\ UNCHANGED <<this, ret, call>>

\* the forEach goes on to the next member
EmptyNext ==
    /\ Running
    /\ call.list # <<>>
    /\ ~HasChildToRemove(dom, Head(call.list))
    /\ call' = [call EXCEPT !.list = Tail(@)]
    /\ UNCHANGED <<dom, this, ret>>

EmptyReturn ==
    /\ Running
    /\ call.list = <<>>
    /\ ret' = RetThis
    /\ UNCHANGED <<dom, this, call>>

EmptyCjs ==
    /\ Idle
    /\ Returns(emptyCjs(dom, this))
    /\ call' = CallOf("emptyCjs")

EmptySteps == EmptyRemove \/ EmptyNext \/ EmptyReturn
NextEmpty == Empty \/ EmptySteps \/ EmptyCjs
SpecEmpty == InitRecv /\ [][NextEmpty]_vars
\* a call that has begun keeps running: nothing else runs on the thread
SpecEmptyFair == SpecEmpty /\ WF_vars(EmptySteps)

\* ------------------------------------------------- Class toggle (SpecClass)
\* One call of toggleClass, of either build, or of addClass or removeClass, on a receiver of the start
\* document (where one element has the class 'cls' and the others do not).
ClassNames == {"cls", "none"}
Forces == {UndefArg, BoolArg(TRUE), BoolArg(FALSE)}
ToggleClass ==
    \E name \in ClassNames, force \in Forces :
        /\ Idle
        /\ Returns(toggleClass(dom, this, name, force))
        /\ call' = [CallOf("toggleClass") EXCEPT !.name = name, !.value = force]

ToggleClassCjs ==
    \E name \in ClassNames, force \in Forces :
        /\ Idle
        /\ Returns(toggleClassCjs(dom, this, name, force))
        /\ call' = [CallOf("toggleClassCjs") EXCEPT !.name = name, !.value = force]

\* addClass / removeClass with up to MaxArgs names (the builds do the same)
AddClass ==
    \E names \in SeqsUpTo(ClassNames, MaxArgs) :
        /\ Idle
        /\ Returns(addClass(dom, this, names))
        /\ call' = [CallOf("addClass") EXCEPT !.list = names]

RemoveClass ==
    \E names \in SeqsUpTo(ClassNames, MaxArgs) :
        /\ Idle
        /\ Returns(removeClass(dom, this, names))
        /\ call' = [CallOf("removeClass") EXCEPT !.list = names]

NextClass == ToggleClass \/ ToggleClassCjs \/ AddClass \/ RemoveClass
SpecClass == InitRecv /\ [][NextClass]_vars

\* ------------------------------------------------------ Events (SpecEvents)
\* The program holds a Collection of event targets (an element, the text in
\* it, the window, the element twice) and calls on, one, off and trigger in
\* any order.  Its listeners count their runs; it sets the count of a
\* listener back to zero at the members it registers or unregisters it on,
\* and remembers which of them it registered last with one().
\* Most runs a count goes up to.
MaxRuns == 2
EventReceivers == {<<3>>, <<5, 3>>, <<3, Window>>, <<3, 3>>}
InitEvents == dom = InitDom /\ this \in EventReceivers /\ ret = NoRet /\ call = NoCall

KeysOf(c, event, listener) == {<<c[i], event, listener>> : i \in 1 .. Len(c)}
Restarted(d, c, event, listener) ==
    [d EXCEPT !.count = [n \in EventTargets |->
        IF Includes(c, n) THEN [d.count[n] EXCEPT ![<<event, listener>>] = 0] ELSE d.count[n]]]
RegisteredWith(d, c, event, listener, once) ==
    [Restarted(d, c, event, listener) EXCEPT
        !.viaOne = IF once THEN @ \cup KeysOf(c, event, listener) ELSE @ \ KeysOf(c, event, listener)]

\* the listeners the program has for an event type
ListenersFor(event) == IF event = "x" THEN Listeners ELSE {"f"}

On ==
    \E event \in EventTypes : \E listener \in ListenersFor(event) :
        /\ Idle
        /\ Returns(on(RegisteredWith(dom, this, event, listener, FALSE), this, event, listener, FALSE))
        /\ call' = [CallOf("on") EXCEPT !.name = event, !.value = StrArg(listener)]

One ==
    \E event \in EventTypes : \E listener \in ListenersFor(event) :
        /\ Idle
        /\ Returns(one(RegisteredWith(dom, this, event, listener, TRUE), this, event, listener))
        /\ call' = [CallOf("one") EXCEPT !.name = event, !.value = StrArg(listener)]

Off ==
    \E event \in EventTypes : \E listener \in ListenersFor(event) :
        /\ Idle
        /\ Returns(off(RegisteredWith(dom, this, event, listener, FALSE), this, event, listener))
        /\ call' = [CallOf("off") EXCEPT !.name = event, !.value = StrArg(listener)]

Trigger ==
    \E event \in EventTypes :
        /\ Idle
        /\ \E r \in {trigger(dom, this, event)} :
            /\ \A n \in EventTargets, k \in EventKeys : r.dom.count[n][k] <= MaxRuns
            /\ Returns(r)
        /\ call' = [CallOf("trigger") EXCEPT !.name = event]

NextEvents == On \/ One \/ Off \/ Trigger \/ Continue
SpecEvents == InitEvents /\ [][NextEvents]_vars

\* ------------------------------------------------ Predicates (SpecPredicates)
\* The program asks one of the static predicates about a value: a node of the
\* document, one more node of any type (an Attr, a CDATASection, a
\* ProcessingInstruction and a DocumentType among them), the window, a plain
\* object, null or undefined.
NodeTypes == {1, 2, 3, 4, 7, 8, 9, 10, 11}
Predicates == {"isNode", "isElement", "isDocument", "isParentNode", "isChildNode", "isDOMItem"}
PredicateValues == (1 .. 10) \cup {Window, PlainObject, Null, UndefinedValue}
InitPredicates ==
    /\ dom \in {[InitDom EXCEPT !.nodeType[10] = t] : t \in NodeTypes}
    /\ this = <<>>
    /\ ret = NoRet
    /\ call = NoCall

IsA ==
    \E p \in Predicates, v \in PredicateValues :
        /\ Idle
        /\ ret' = RetBool(IF p = "isNode" THEN isNode(dom, v)
                          ELSE IF p = "isElement" THEN isElement(dom, v)
                          ELSE IF p = "isDocument" THEN isDocument(dom, v)
                          ELSE IF p = "isParentNode" THEN isParentNode(dom, v)
                          ELSE IF p = "isChildNode" THEN isChildNode(dom, v)
                          ELSE isDOMItem(dom, v))
        /\ call' = [CallOf(p) EXCEPT !.list = <<v>>]
        /\ UNCHANGED <<dom, this>>

NextPredicates == IsA \/ Continue
SpecPredicates == InitPredicates /\ [][NextPredicates]_vars

\* ----------------------------------------------------- claims on SpecColl
NoDuplicates(c) == \A i, j \in 1 .. Len(c) : c[i] = c[j] => i = j

\* C3: after any sequence of construction from a list, push, unshift and
\* concat, no Collection (the one held, or the one concat returned) holds the
\* same Item at two positions.
C3_NoDuplicateMembers ==
    /\ NoDuplicates(this)
    /\ ret.kind = "collection" => NoDuplicates(ret.coll)

\* C4: push(x...) / unshift(x...) where every x is already a member leaves
\* the Collection's length and member order as they were and returns that
\* unchanged length.
C4Case ==
    /\ call.op \in {"push", "unshift"}
    /\ call.list # <<>>
    /\ \A i \in 1 .. Len(call.list) : Includes(call.this, call.list[i])
C4_PresentItemIsNoOp == C4Case => this = call.this /\ ret = RetNum(Len(call.this))
C4_Witness == C4Case /\ call.op = "unshift" /\ Len(call.this) >= 2 /\ call.list[1] = call.this[2]

\* C21: after any sequence of construction, push, unshift and concat with
\* arbitrary values, every member of a Collection (the one held, or the one
\* concat returned) is a DOMItem; the call that was handed other values did
\* not throw, and the members present before it are still there, in their
\* order, next to each other.
ArgValues ==
    IF call.op = "concat"
    THEN Range(ArrayConcat(<<>>, call.list))
    ELSE Range(call.list)
AllDOMItems(c) == \A i \in 1 .. Len(c) : isDOMItem(dom, c[i])
KeepsMembers(c) ==
    \E k \in 0 .. Len(c) - Len(call.this) : SubSeq(c, k + 1, k + Len(call.this)) = call.this
C21Case ==
    /\ call.op \in {"new", "push", "unshift", "concat"}
    /\ \E v \in ArgValues : ~isDOMItem(dom, v)
C21_OnlyDOMItems ==
    /\ AllDOMItems(this)
    /\ ret.kind = "collection" => AllDOMItems(ret.coll)
    /\ C21Case =>
        /\ ret.kind # "threw"
        /\ call.op \in {"push", "unshift"} => KeepsMembers(this)
        /\ call.op = "concat" => this = call.this /\ KeepsMembers(ret.coll)
C21_Witness ==
    /\ C21Case
    /\ call.op = "push"
    /\ call.this = <<3>>
    /\ call.list = <<PlainObject, 5>>
    /\ this = <<3, 5>>

\* ----------------------------------------------------- claims on SpecClass
\* C23: after toggleClass(name, force) every Element member has the class
\* when force is true, none has it when force is false, and without force
\* every Element member has it exactly if it did not have it before.
C23Case == call.op \in {"toggleClass", "toggleClassCjs"}
C23_ToggleClassForce ==
    C23Case =>
        \A i \in 1 .. Len(call.this) :
            NodeTypeOf(dom, call.this[i]) = ELEMENT_NODE =>
                (call.name \in dom.classList[call.this[i]]) =
                    (IF call.value.kind = "undefined"
                     THEN call.name \notin call.dom.classList[call.this[i]]
                     ELSE call.value.bool)

\* ---------------------------------------------------- claims on SpecEvents
\* C22: a listener registered with one(event, listener) runs at most once at
\* each member for that event type, however often trigger(event) is called
\* afterwards.
C22_OneRunsAtMostOnce == \A k \in dom.viaOne : dom.count[k[1]][<<k[2], k[3]>>] <= 1

\* ---------------------------------------------------- claims on SpecInsert
InsertOps == {"after", "before", "append", "prepend"}

\* the members of the receiver that the call treats as targets
EligibleTarget(op, d, t) ==
    IF op \in {"after", "before", "replaceWith"}
    THEN NodeTypeOf(d, t) \in {ELEMENT_NODE, TEXT_NODE, COMMENT_NODE} /\ ParentNode(d, t) # Null
    ELSE NodeTypeOf(d, t) \in {ELEMENT_NODE, DOCUMENT_NODE, DOCUMENT_FRAGMENT_NODE}
Targets == {t \in Range(call.this) : EligibleTarget(call.op, call.dom, t)}

\* the node a call with one content input hands over: the node given, or the
\* Text node made for the string (the lowest free identity before the call)
ContentNode ==
    IF call.list[1].kind = "string" THEN Min(FreeNodes(call.dom)) ELSE call.list[1].item
\* the state in which the content is as it was handed over
ContentDom == IF call.list[1].kind = "string" THEN dom ELSE call.dom

\* the node found, after the call, where the call puts content for target t
Received(t) ==
    IF call.op = "after" THEN NextSibling(dom, t)
    ELSE IF call.op = "before" THEN PreviousSibling(dom, t)
    ELSE IF call.op = "append" THEN LastChild(dom, t)
    ELSE FirstChild(dom, t)

RECURSIVE SameContent(_, _, _, _)
SameContent(d1, n1, d2, n2) ==
    /\ d1.nodeType[n1] = d2.nodeType[n2]
    /\ d1.tagName[n1] = d2.tagName[n2]
    /\ d1.nodeValue[n1] = d2.nodeValue[n2]
    /\ d1.attrs[n1] = d2.attrs[n2]
    /\ d1.classList[n1] = d2.classList[n2]
    /\ d1.dataset[n1] = d2.dataset[n2]
    /\ Len(d1.childNodes[n1]) = Len(d2.childNodes[n2])
    /\ \A i \in 1 .. Len(d1.childNodes[n1]) :
           SameContent(d1, d1.childNodes[n1][i], d2, d2.childNodes[n2][i])

\* a node the call made and that is a deep copy of the content
IsCloneOfContent(x) ==
    /\ x \in Nodes
    /\ x # ContentNode
    /\ ~IsAllocated(call.dom, x)
    /\ SameContent(ContentDom, ContentNode, dom, x)

\* C1: after/before/append/prepend with one content input (not itself a
\* member) on a duplicate-free Collection with two or more eligible targets:
\* exactly one target receives the original node, every other target receives
\* a deep clone of it, and no node is received by two targets.
C1Case ==
    /\ call.op \in InsertOps
    /\ ret.kind = "this"
    /\ Len(call.list) = 1
    /\ NoDuplicates(call.this)
    /\ ContentNode \notin Range(call.this)
    /\ Cardinality(Targets) >= 2
C1_DistributionOwnership ==
    C1Case =>
        /\ Cardinality({t \in Targets : Received(t) = ContentNode}) = 1
        /\ \A t \in Targets : Received(t) # ContentNode => IsCloneOfContent(Received(t))
        /\ \A t, u \in Targets : t # u => Received(t) # Received(u)

\* C2: after('x'): every eligible target is immediately followed by a Text
\* node 'x' of its own that the call made, and the nodes that were in the tree
\* keep their relative order under every parent (so for siblings A, B the
\* order is A, x, B, x').
C2Case ==
    /\ call.op = "after"
    /\ ret.kind = "this"
    /\ Len(call.list) = 1
    /\ call.list[1].kind = "string"
IsCopyOfText(x) ==
    /\ x \in Nodes
    /\ ~IsAllocated(call.dom, x)
    /\ dom.nodeType[x] = TEXT_NODE
    /\ dom.nodeValue[x] = call.list[1].str
C2_AfterKeepsOrder ==
    C2Case =>
        /\ \A t \in Targets : IsCopyOfText(NextSibling(dom, t))
        /\ \A t, u \in Targets : t # u => NextSibling(dom, t) # NextSibling(dom, u)
        /\ \A p \in Nodes :
               IsAllocated(call.dom, p) =>
                   SelectSeq(dom.childNodes[p], LAMBDA n : IsAllocated(call.dom, n)) = call.dom.childNodes[p]
C2_Witness ==
    /\ C2Case
    /\ call.this = <<3, 4>>
    /\ Len(dom.childNodes[2]) = 5
    /\ dom.childNodes[2][1] = 3 /\ dom.childNodes[2][3] = 4
    /\ IsCopyOfText(dom.childNodes[2][2]) /\ IsCopyOfText(dom.childNodes[2][4])

\* C6: before, after, prepend, append and replaceWith leave the receiver's
\* members and their order as they were, whatever the content and the targets
\* (also when the host raises), and a call that returns returns the receiver.
C6Case == call.op \in InsertOps \cup {"replaceWith"}
C6_InsertionKeepsReceiver == C6Case => this = call.this /\ ret.kind \in {"this", "threw"}
C6_Witness ==
    /\ C6Case
    /\ call.op = "before"
    /\ ret.kind = "this"
    /\ Len(call.this) >= 2 /\ call.this[1] # call.this[2]
    /\ dom # call.dom

\* the nodes the content inputs stand for once materialized (a fragment
\* stands for its children), in the state right after materialization
Materialized == Materialize(call.dom, call.list, <<>>)
RECURSIVE UnitsOf(_, _)
UnitsOf(d, nodes) ==
    IF nodes = <<>> THEN <<>>
    ELSE (IF d.nodeType[Head(nodes)] = DOCUMENT_FRAGMENT_NODE THEN d.childNodes[Head(nodes)] ELSE <<Head(nodes)>>)
             \o UnitsOf(d, Tail(nodes))
ContentUnits == UnitsOf(Materialized.dom, Materialized.nodes)

\* x is content unit u itself or a node made by the call that is a deep copy
\* of it
IsCopyOfUnit(x, u) ==
    \/ x = u
    \/ /\ x \in Nodes
       /\ ~IsAllocated(Materialized.dom, x)
       /\ SameContent(Materialized.dom, u, dom, x)

\* what replaceWith is to leave of a child list: a target gives way to one
\* copy of every content unit, a node that is content leaves its old place,
\* every other child stays
RECURSIVE Replaced(_)
Replaced(kids) ==
    IF kids = <<>> THEN <<>>
    ELSE (IF Head(kids) \in Targets THEN [i \in 1 .. Len(ContentUnits) |-> [keep |-> FALSE, node |-> ContentUnits[i]]]
          ELSE IF Targets # {} /\ Head(kids) \in Range(ContentUnits) THEN <<>>
          ELSE <<[keep |-> TRUE, node |-> Head(kids)]>>) \o Replaced(Tail(kids))
IsReplaced(kids, slots) ==
    /\ Len(kids) = Len(slots)
    /\ \A j \in 1 .. Len(slots) :
           IF slots[j].keep THEN kids[j] = slots[j].node ELSE IsCopyOfUnit(kids[j], slots[j].node)

\* C12: after replaceWith(content) every member that was a ChildNode with a
\* parent has no parent, and in that parent one copy of the content stands
\* where the member stood; nothing else in the tree moves, so the other
\* members are where they were and receive nothing.  (Stated for a
\* duplicate-free receiver and content nodes that are distinct and not members.)
C12Case ==
    /\ call.op = "replaceWith"
    /\ ret.kind = "this"
    /\ NoDuplicates(call.this)
    /\ NoDuplicates(Materialized.nodes)
    /\ Range(Materialized.nodes) \cap Range(call.this) = {}
C12_ReplaceWithSwapsTargets ==
    C12Case =>
        /\ \A t \in Targets : ParentNode(dom, t) = Null
        /\ \A p \in Nodes :
               IsAllocated(call.dom, p) => IsReplaced(dom.childNodes[p], Replaced(call.dom.childNodes[p]))

\* a node the call has put somewhere: a content unit, or a node it made
InsertedNode(x) == x \in Range(ContentUnits) \/ ~IsAllocated(call.dom, x)
RECURSIVE Lead(_)
Lead(s) == IF s = <<>> \/ ~InsertedNode(Head(s)) THEN <<>> ELSE <<Head(s)>> \o Lead(Tail(s))
Trail(s) == Reverse(Lead(Reverse(s)))
\* the inserted nodes found at the insertion point of member t in state d, in
\* document order: directly after t, directly before t, at the end or at the
\* start of its children
RunAt(d, t) ==
    IF t \notin Nodes THEN <<>>
    ELSE IF call.op = "append" THEN Trail(d.childNodes[t])
    ELSE IF call.op = "prepend" THEN Lead(d.childNodes[t])
    ELSE LET p == ParentNode(d, t) IN
         IF p = Null THEN <<>>
         ELSE LET kids == d.childNodes[p]
                  i == IndexOf(kids, t)
              IN  IF call.op = "after" THEN Lead(SubSeq(kids, i + 1, Len(kids)))
                  ELSE Trail(SubSeq(kids, 1, i - 1))
\* the run is one copy of every content unit, in the order of the arguments
IsContentRun(run) ==
    /\ Len(run) = Len(ContentUnits)
    /\ \A j \in 1 .. Len(run) : IsCopyOfUnit(run[j], ContentUnits[j])
\* the positions of the eligible targets in the receiver
TargetPositions == {i \in 1 .. Len(call.this) : EligibleTarget(call.op, call.dom, call.this[i])}
\* the children of p that were in the tree before the call and are no content
OldKids(d, p) == SelectSeq(d.childNodes[p], LAMBDA x : IsAllocated(call.dom, x) /\ x \notin Range(ContentUnits))
\* receiver without repeats, content that is no member
PlainCall ==
    /\ call.op \in InsertOps
    /\ NoDuplicates(call.this)
    /\ Range(Materialized.nodes) \cap Range(call.this) = {}

\* the last eligible target of the receiver, which the call visits first
LastTarget == call.this[CHOOSE i \in TargetPositions : \A j \in TargetPositions : j <= i]
\* the reference child the call hands to insertBefore for target t
RefOf(d, t) ==
    IF call.op = "after" THEN NextSibling(d, t)
    ELSE IF call.op = "before" THEN t
    ELSE IF call.op = "append" THEN Null
    ELSE FirstChild(d, t)
ParentOf(d, t) == IF call.op \in {"after", "before"} THEN ParentNode(d, t) ELSE t
\* the host raises at the very first insertion of the call
RaisesAtOnce ==
    /\ call.op \in InsertOps
    /\ TargetPositions # {}
    /\ call.list # <<>>
    /\ InsertionRaises(Materialized.dom, ParentOf(call.dom, LastTarget), Materialized.nodes[1],
                       RefOf(call.dom, LastTarget))
SameTree(d1, d2) == \A n \in Nodes : IsAllocated(d1, n) => d2.childNodes[n] = d1.childNodes[n]
\* the same call on a receiver c
InsertCall(c) ==
    IF call.op = "after" THEN after(call.dom, c, call.list)
    ELSE IF call.op = "before" THEN before(call.dom, c, call.list)
    ELSE IF call.op = "append" THEN append(call.dom, c, call.list)
    ELSE prepend(call.dom, c, call.list)

\* C24: when the host raises during after/before/append/prepend the call
\* raises (at once and with the tree as it was when the first insertion
\* raises); the receiver is as it was; the targets behind the one that raised,
\* which were visited before it, hold what the call would have left them had
\* it ended after them, and the targets in front of it have received nothing.
C24Case == PlainCall /\ ret.kind = "threw"
C24_RaiseKeepsEarlierInsertions ==
    /\ RaisesAtOnce => ret.kind = "threw" /\ SameTree(call.dom, dom)
    /\ C24Case =>
        /\ this = call.this
        /\ \E r \in TargetPositions :
               /\ \A j \in TargetPositions :
                      j < r => Range(RunAt(dom, call.this[j])) \subseteq Range(RunAt(call.dom, call.this[j]))
               /\ InsertCall(SubSeq(call.this, r, Len(call.this))).ret.kind = "threw"
               /\ \E v \in {InsertCall(SubSeq(call.this, r + 1, Len(call.this)))} :
                      /\ v.ret.kind = "this"
                      /\ \A j \in TargetPositions :
                             j > r => RunAt(dom, call.this[j]) = RunAt(v.dom, call.this[j])
C24_Witness ==
    /\ C24Case
    /\ call.op = "after"
    /\ call.this = <<4, 2, 3>>
    /\ call.list = <<StrArg("x")>>
    /\ dom.childNodes[2] = <<3, 10, 4, 6>>

\* C25: after a returning after/before/append/prepend the original content is
\* at the insertion point of the last eligible target of the receiver; a member
\* that is no eligible target has received nothing; with no eligible target
\* no node of the tree has other children than before.
C25Case == call.op \in InsertOps /\ ret.kind = "this" /\ Range(Materialized.nodes) \cap Range(call.this) = {}
C25_OriginalsToLastTarget ==
    C25Case =>
        /\ TargetPositions # {} => \A u \in Range(ContentUnits) : u \in Range(RunAt(dom, LastTarget))
        /\ \A i \in (1 .. Len(call.this)) \ TargetPositions :
               RunAt(dom, call.this[i]) = RunAt(call.dom, call.this[i])
        /\ TargetPositions = {} =>
               \A n \in Nodes : IsAllocated(call.dom, n) => dom.childNodes[n] = call.dom.childNodes[n]
C25_Witness ==
    /\ C25Case
    /\ call.op = "append"
    /\ call.this = <<3, 9, 5>>
    /\ call.list = <<StrArg("x")>>
    /\ dom.childNodes[9] = <<10>>
    /\ dom.childNodes[3] = <<5, 11>>

\* C26: with two or more content inputs every eligible target has, at its
\* insertion point, one copy of every input in the order of the arguments
\* (first children for prepend, last children for append, directly before
\* the target for before, directly after it for after), and the nodes that
\* were children of a node before keep their relative order.
C26Case == PlainCall /\ ret.kind = "this" /\ Len(call.list) >= 2 /\ NoDuplicates(Materialized.nodes)
C26_ArgumentOrderKept ==
    C26Case =>
        /\ \A t \in Targets : IsContentRun(RunAt(dom, t))
        /\ \A n \in Nodes :
               IsAllocated(call.dom, n) /\ Targets # {} => OldKids(dom, n) = OldKids(call.dom, n)

\* C27: after a returning after/before/append/prepend with k content inputs
\* every eligible target has k inserted nodes at its insertion point, and any
\* two targets have runs of the same length with the same content, node for
\* node.
C27Case == PlainCall /\ ret.kind = "this"
C27_SameInsertionEverywhere ==
    C27Case =>
        /\ \A t \in Targets : Len(RunAt(dom, t)) = Len(call.list)
        /\ \A t, u \in Targets :
               /\ Len(RunAt(dom, t)) = Len(RunAt(dom, u))
               /\ \A j \in 1 .. Min({Len(RunAt(dom, t)), Len(RunAt(dom, u))}) :
                      SameContent(dom, RunAt(dom, t)[j], dom, RunAt(dom, u)[j])

\* ----------------------------------------------------- claims on SpecQuery
QueryOps ==
    {"children", "parent", "next", "prev", "closest", "clone", "querySelector", "querySelectorAll", "find",
     "siblings", "contents", "filter", "not"}

\* C5: every query-style operation leaves the receiver's members and their
\* order as they were and returns a Collection that is a new object (find
\* with a callback, which is Array.prototype.find, returns a member or
\* undefined instead).
C5Case == call.op \in QueryOps
C5_ProjectionPurity ==
    C5Case =>
        /\ this = call.this
        /\ IF call.op = "find" /\ call.sel.kind = "function"
           THEN ret.kind \in {"item", "undefined"}
           ELSE ret.kind = "collection"
C5_Witness ==
    /\ C5Case
    /\ call.op = "children"
    /\ call.this = <<2, 3>>
    /\ ret.kind = "collection" /\ ret.coll = <<3, 4>>

\* the per-item test the claims ascribe to a matcher m, by the kind of m
Passes(d, c, i, m) ==
    IF m.kind = "string" THEN NodeTypeOf(d, c[i]) = ELEMENT_NODE /\ Matches(d, c[i], m.str)
    ELSE IF m.kind = "function" THEN Call(m.fn, d, c[i], i - 1, c)
    ELSE IF m.kind = "list" THEN c[i] \in Range(m.list)
    ELSE c[i] = m.item

\* r holds exactly the members of c at the positions P, in the order of c
IsSelection(r, c, P) ==
    /\ Len(r) = Cardinality(P)
    /\ \A k \in 1 .. Len(r) : r[k] = c[CHOOSE i \in P : Cardinality({j \in P : j < i}) = k - 1]

\* C9: filter(m) returns exactly the members that pass m's test, in their
\* original order; the test goes by the kind of m (string: an Element that
\* matches; function: called with item, index, collection; list: membership;
\* Item: equality), and a non-Element never passes a string.
C9Case == call.op = "filter"
C9_FilterDispatch ==
    C9Case =>
        /\ ret.kind = "collection"
        /\ IsSelection(ret.coll, call.this,
                       {i \in 1 .. Len(call.this) : Passes(call.dom, call.this, i, call.sel)})
C9_Witness ==
    /\ C9Case
    /\ call.sel = ListArg(<<5, 3>>)
    /\ call.this = <<3, 4, 5>>
    /\ ret.coll = <<3, 5>>

\* C10: not(m) returns exactly the members on which the test of filter(m) is
\* false, in their original order, for each of the four kinds of m.
C10_NotIsComplement ==
    call.op = "not" =>
        /\ ret.kind = "collection"
        /\ IsSelection(ret.coll, call.this,
                       {i \in 1 .. Len(call.this) : ~Passes(call.dom, call.this, i, call.sel)})

\* C11: is(m) is true iff some member passes the test filter(m) uses, that
\* is iff filter(m) is not empty; hasClass(name) is true iff some Element
\* member carries the class; both are false on an empty Collection and change
\* neither the document nor the Collection.
C11Case == call.op \in {"is", "hasClass"}
C11_PredicatesAreSome ==
    C11Case =>
        /\ dom = call.dom
        /\ this = call.this
        /\ ret.kind = "boolean"
        /\ call.this = <<>> => ~ret.bool
        /\ call.op = "is" =>
               /\ ret.bool = (\E i \in 1 .. Len(call.this) : Passes(call.dom, call.this, i, call.sel))
               /\ ret.bool = (filter(call.dom, call.this, call.sel).ret.coll # <<>>)
        /\ call.op = "hasClass" =>
               ret.bool = (\E m \in Range(call.this) :
                              NodeTypeOf(call.dom, m) = ELEMENT_NODE /\ call.name \in call.dom.classList[m])
C11_Witness ==
    /\ C11Case
    /\ call.op = "is"
    /\ call.sel = StrArg(".cls")
    /\ call.this = <<5, 4, 3>>
    /\ ret = RetBool(TRUE)

\* ---------------------------------------------------- claims on SpecAccess
\* the call reads (no value given; data() without a key reads whatever the
\* value) or writes
IsGet ==
    \/ call.op \in {"attr", "html", "text"} /\ call.value.kind = "undefined"
    \/ call.op = "data" /\ (call.key.kind = "undefined" \/ call.value.kind = "undefined")
IsSet ==
    \/ call.op \in {"attr", "html", "text"} /\ call.value.kind = "string"
    \/ call.op = "data" /\ call.key.kind = "string" /\ call.value.kind = "string"

\* the members the accessor applies to: any Node for text, the Elements with
\* a dataset for data, any Element otherwise
HasDataset(d, m) == NodeTypeOf(d, m) = ELEMENT_NODE /\ d.namespaceURI[m] \in DatasetNamespaces
EligibleMember(d, m) ==
    IF call.op = "text" THEN NodeTypeOf(d, m) # 0
    ELSE IF call.op = "data" THEN HasDataset(d, m)
    ELSE NodeTypeOf(d, m) = ELEMENT_NODE
FirstEligible ==
    LET hits == {i \in 1 .. Len(call.this) : EligibleMember(call.dom, call.this[i])} IN
    IF hits = {} THEN 0 ELSE Min(hits)

\* what the accessor of the call reads from node n in state d
Reads(d, n) ==
    IF call.op = "attr" THEN RetStr(d.attrs[n][call.name])
    ELSE IF call.op = "data" /\ call.key.kind = "undefined" THEN RetObj(d.dataset[n])
    ELSE IF call.op = "data" THEN RetStr(d.dataset[n][camelCaseKey(call.key.str)])
    ELSE IF call.op = "html" THEN RetMarkup(InnerHTML(d, n))
    ELSE RetStr(TextContent(d, n))
Sentinel ==
    IF call.op \in {"attr", "text"} THEN RetStr(JSNull)
    ELSE IF call.op = "data" /\ call.key.kind = "undefined" THEN RetObj(NoData)
    ELSE IF call.op = "data" THEN RetStr(Undefined)
    ELSE RetMarkup(<<>>)

\* C7: without a value, attr / data / html / text return what the first
\* eligible member holds (also when that is null or undefined and a later
\* member holds a value), the sentinel when no member is eligible, and change
\* neither the document nor the Collection.
C7_GetReadsFirstEligible ==
    IsGet =>
        /\ dom = call.dom
        /\ this = call.this
        /\ ret = IF FirstEligible = 0 THEN Sentinel ELSE Reads(call.dom, call.this[FirstEligible])
C7_Witness ==
    /\ IsGet
    /\ call.op = "attr" /\ call.name = "title"
    /\ call.this = <<Window, 3, 4>>
    /\ ret = RetStr(JSNull)

\* what one assignment of the call's value to node n alone does to state d
Assigns(d, n) ==
    IF call.op = "attr" THEN SetAttribute(d, n, call.name, call.value.str)
    ELSE IF call.op = "data" THEN SetData(d, n, camelCaseKey(call.key.str), call.value.str)
    ELSE IF call.op = "html" THEN SetInnerHTML(d, n, call.value.str)
    ELSE SetTextContent(d, n, call.value.str)
OwnState(d, n) ==
    [nodeType |-> d.nodeType[n], tagName |-> d.tagName[n], nodeValue |-> d.nodeValue[n], attrs |-> d.attrs[n],
     classList |-> d.classList[n], dataset |-> d.dataset[n], childNodes |-> d.childNodes[n]]

\* C8: with a value, attr / data / html / text leave every eligible member
\* holding what the assignment gives it, leave the ineligible members as they
\* were, and return the receiver.
C8_SetAppliesToEveryEligible ==
    IsSet =>
        /\ this = call.this
        /\ ret = RetThis
        /\ \A m \in Range(call.this) :
               IF EligibleMember(call.dom, m)
               THEN Reads(dom, m) = Reads(Assigns(call.dom, m), m)
               ELSE m \in Nodes => OwnState(dom, m) = OwnState(call.dom, m)
C8_Witness ==
    /\ IsSet
    /\ call.op = "attr" /\ call.name = "id" /\ call.value = StrArg("z")
    /\ call.this = <<3, 4, 9>>
    /\ \A m \in {3, 4, 9} : dom.attrs[m]["id"] = "z"

\* -------------------------------------------------- claims on SpecConstruct
Constructed == call.op \in {"EagleJS", "EagleJSCjs"}

\* C13: new EagleJS(null, context) is empty, new EagleJS(item, context) holds
\* exactly the item, new EagleJS(list, context) holds the items of the list in
\* list order (item and list of DOMItems), whatever the context is; no node is
\* made or changed.
C13Case ==
    /\ Constructed
    /\ call.sel.kind \in {"null", "item", "list"}
    /\ call.sel.kind = "item" => isDOMItem(call.dom, call.sel.item)
    /\ call.sel.kind = "list" => \A i \in 1 .. Len(call.sel.list) : isDOMItem(call.dom, call.sel.list[i])
C13_ConstructFromValues ==
    C13Case =>
        /\ ret.kind = "this"
        /\ dom = call.dom
        /\ this = (IF call.sel.kind = "null" THEN <<>>
                   ELSE IF call.sel.kind = "item" THEN <<call.sel.item>>
                   ELSE call.sel.list)
C13_Witness ==
    /\ C13Case
    /\ call.sel = ListArg(<<5, 3>>)
    /\ call.context = StrArg(<<"b">>)
    /\ this = <<5, 3>>

\* the context of the call as the list of values it stands for: the item, the
\* items of the list, or (a selector) the elements of the default document
\* that match it, in document order
ContextMembers ==
    IF call.context.kind = "item" THEN <<call.context.item>>
    ELSE IF call.context.kind = "list" THEN call.context.list
    ELSE QuerySelectorAll(call.dom, document, SelectorOf(call.context.str))
\* the descendants of m that match the selector of the call, in document order
Under(m) ==
    IF NodeTypeOf(call.dom, m) \in {ELEMENT_NODE, DOCUMENT_NODE, DOCUMENT_FRAGMENT_NODE}
    THEN SelectSeq(Descendants(call.dom, m),
                   LAMBDA e : call.dom.nodeType[e] = ELEMENT_NODE /\ Matches(call.dom, e, SelectorOf(call.sel.str)))
    ELSE <<>>
\* the first context member under which x is found
FoundUnder(x) == Min({i \in 1 .. Len(ContextMembers) : Includes(Under(ContextMembers[i]), x)})

\* C14: new EagleJS(selector, context) with a selector string that does not
\* look like HTML and a context that is an item, a list or such a string
\* holds exactly the matching descendants of the context members that are
\* ParentNodes, each once, ordered by the first member they are found under
\* and in document order under one member; the document is unchanged.
C14Case ==
    /\ Constructed
    /\ ret.kind = "this"
    /\ call.sel.kind = "string" /\ ~IsHtmlString(call.sel.str)
    /\ call.context.kind = "string" => ~IsHtmlString(call.context.str)
C14_SelectorUnderContext ==
    C14Case =>
        /\ dom = call.dom
        /\ NoDuplicates(this)
        /\ Range(this) = UNION {Range(Under(ContextMembers[i])) : i \in 1 .. Len(ContextMembers)}
        /\ \A a, b \in 1 .. Len(this) :
               a < b =>
                   \/ FoundUnder(this[a]) < FoundUnder(this[b])
                   \/ /\ FoundUnder(this[a]) = FoundUnder(this[b])
                      /\ IndexOf(Under(ContextMembers[FoundUnder(this[a])]), this[a])
                             < IndexOf(Under(ContextMembers[FoundUnder(this[a])]), this[b])
C14_Witness ==
    /\ C14Case
    /\ call.sel = StrArg(<<"*">>)
    /\ call.context = ListArg(<<2, 1>>)
    /\ this = <<3, 4, 2>>

\* the body of the document the call has made to parse into
IsParsedBody(b) == b \in Nodes /\ ~IsAllocated(call.dom, b) /\ dom.tagName[b] = "body"
HtmlSelector == call.sel.kind = "string" /\ IsHtmlString(call.sel.str)
DocumentContext == call.context.kind = "item" /\ isDocument(call.dom, call.context.item)

\* C15: new EagleJS(htmlString), the context a Document, holds all the child
\* nodes of the parsed body (elements, text and comments), in their order;
\* text() on new EagleJS('<div>hi</div>') returns 'hi'.
C15Case == Constructed /\ HtmlSelector /\ DocumentContext
C15_HtmlStringGivesAllChildren ==
    /\ C15Case => ret.kind = "this" /\ \E b \in Nodes : IsParsedBody(b) /\ this = dom.childNodes[b]
    /\ (/\ call.op = "text"
        /\ call.sel = StrArg(<<"<", "d", "i", "v", ">", "h", "i", "<", "/", "d", "i", "v", ">">>)
        /\ DocumentContext) => ret = RetStr("hi")

\* optional white space, '<', one or more characters of any kind, '>',
\* optional white space
LooksLikeHtml(s) ==
    \E i, j \in 1 .. Len(s) :
        /\ i + 1 < j
        /\ s[i] = "<" /\ s[j] = ">"
        /\ \A k \in 1 .. i - 1 : s[k] \in WhiteSpace
        /\ \A k \in j + 1 .. Len(s) : s[k] \in WhiteSpace

\* C16: under a Document context, new EagleJS(string) parses the string as
\* HTML (a document with a body is made for it) if and only if the string is
\* white space, '<', one or more characters of any kind, '>', white space;
\* for every other string it makes no node and queries (it returns what is
\* found in the context, or the query raises).
C16Case == Constructed /\ call.sel.kind = "string" /\ DocumentContext
C16_HtmlDispatch ==
    C16Case =>
        IF LooksLikeHtml(call.sel.str)
        THEN ret.kind = "this" /\ \E b \in Nodes : IsParsedBody(b)
        ELSE dom = call.dom /\ Range(this) \subseteq {n \in Nodes : IsAllocated(call.dom, n)}

\* nothing that was in the document before the call has changed
OldNodesKept ==
    \A n \in Nodes :
        IsAllocated(call.dom, n) =>
            /\ dom.nodeType[n] = call.dom.nodeType[n] /\ dom.childNodes[n] = call.dom.childNodes[n]
            /\ dom.nodeValue[n] = call.dom.nodeValue[n] /\ dom.tagName[n] = call.dom.tagName[n]

\* C17 as stated: with a string that looks like HTML and a context that is
\* not a Document (an item, a list, a selector), the string is queried as a
\* selector under the context: no node is made, the query raises if the
\* context holds a ParentNode to run it on, and finds nothing otherwise.
C17_HtmlStringQueriedInContext ==
    (/\ Constructed /\ HtmlSelector /\ ~DocumentContext
     /\ call.context.kind = "string" => IsSelector(call.context.str)) =>
        /\ dom = call.dom
        /\ IF \E i \in 1 .. Len(ContextMembers) : isParentNode(call.dom, ContextMembers[i])
           THEN ret.kind = "threw"
           ELSE ret.kind = "this" /\ this = <<>>

\* C17, amended: with a string that looks like HTML and a context that is not
\* a Document, the TypeScript source parses the string and holds the child
\* nodes of the parsed body, and the CommonJS build makes nothing and holds
\* nothing; neither runs a query, and the document is as it was.
C17Case == Constructed /\ HtmlSelector /\ ~DocumentContext
C17_HtmlStringIgnoresContext ==
    C17Case =>
        /\ ret.kind = "this"
        /\ OldNodesKept
        /\ IF call.op = "EagleJS"
           THEN \E b \in Nodes : IsParsedBody(b) /\ this = dom.childNodes[b]
           ELSE dom = call.dom /\ this = <<>>
C17_Witness ==
    /\ C17Case
    /\ call.op = "EagleJS"
    /\ call.sel = StrArg(<<"<", "b", ">">>)
    /\ call.context = ItemArg(3)
    /\ Len(this) = 1 /\ dom.tagName[this[1]] = "b" /\ ~IsAllocated(call.dom, this[1])

\* ------------------------------------------------------ claims on SpecReady
Count(s, x) == Cardinality({i \in 1 .. Len(s) : s[i] = x})
\* the Documents in the receiver of the call, with repeats
ReadyReturned == call.op \in {"ready", "readyCjs"}

\* s begins with t
StartsWith(s, t) == Len(t) <= Len(s) /\ SubSeq(s, 1, Len(t)) = t
\* the members the build of the call reads the readyState of (those that
\* have one; in the CommonJS build the Documents) and finds not 'loading',
\* with repeats
NotLoading(d, c, op) ==
    SelectSeq(c, LAMBDA m : /\ IF op = "ready" THEN HasProp(d, m, "readyState")
                                 ELSE NodeTypeOf(d, m) = DOCUMENT_NODE
                            /\ ReadyState(d, m) # "loading")

\* C18: ready(listener) on a Collection that holds a Document which is not
\* loading does not invoke the listener: when it returns the listener has not
\* run again and is queued once for every member whose readyState the build
\* reads and finds other than 'loading', behind what was queued, and no
\* listener has been added to a member that is not loading; and whatever is
\* queued is invoked in a later turn of the event loop: a callback leaves the
\* queue only from its front and by being invoked, no invocation is ever
\* taken back, and the queue is empty again and again.
C18Case ==
    /\ ReadyReturned
    /\ \E i \in 1 .. Len(call.this) :
           /\ NodeTypeOf(call.dom, call.this[i]) = DOCUMENT_NODE
           /\ ReadyState(call.dom, call.this[i]) # "loading"
C18_ReadyDefersWhenLoaded ==
    /\ [][(C18Case' /\ Idle) =>
              /\ dom'.invoked = dom.invoked
              /\ dom'.timers = dom.timers \o [i \in 1 .. Len(NotLoading(dom, this, call'.op)) |-> call'.name]
              /\ \A n \in Nodes : ReadyState(dom, n) # "loading" => dom'.listeners[n] = dom.listeners[n]]_vars
    /\ [][\/ /\ dom.timers # <<>>
              /\ dom'.timers = Tail(dom.timers)
              /\ dom'.invoked = Append(dom.invoked, Head(dom.timers))
           \/ /\ StartsWith(dom'.timers, dom.timers)
              /\ StartsWith(dom'.invoked, dom.invoked)]_vars
    /\ []<>(dom.timers = <<>>)
\* what follows from C18 for each listener: as often as it was queued, it is
\* invoked
C18_EachQueuedRuns ==
    \A l \in Listeners : \A n \in 1 .. MaxTasks :
        (Count(dom.invoked, l) + Count(dom.timers, l) >= n) ~> (Count(dom.invoked, l) >= n)
C18_Witness ==
    /\ C18Case
    /\ call.dom.readyState[document] = "interactive"
    /\ call.dom.invoked = <<>> /\ call.dom.timers = <<>>
    /\ dom.listeners[document] = <<>>
    /\ dom.timers = <<>>
    /\ dom.invoked = <<call.name>>

\* C19: ready(listener) on a Collection that holds the loading Document
\* registers the listener for DOMContentLoaded and does not invoke it; no
\* listener of a Collection that holds the loading Document is invoked while
\* it is loading; once the document has left loading every registered
\* listener is invoked; and no listener of a Collection that holds no
\* Document is ever invoked.
C19Case == ReadyReturned /\ Includes(call.this, document) /\ call.dom.readyState[document] = "loading"
HoldsNoDocument == \A i \in 1 .. Len(this) : NodeTypeOf(dom, this[i]) # DOCUMENT_NODE
C19_ReadyWaitsWhileLoading ==
    /\ [][(C19Case' /\ Idle) =>
              /\ dom'.invoked = dom.invoked
              /\ Includes(dom'.listeners[document], call'.name)]_vars
    /\ []((Includes(this, document) /\ dom.readyState[document] = "loading") => dom.invoked = <<>>)
    /\ \A l \in Listeners :
           (Includes(dom.listeners[document], l) /\ dom.readyState[document] # "loading")
               ~> Includes(dom.invoked, l)
    /\ [](HoldsNoDocument => dom.invoked = <<>>)
\* the parts of C19, each on its own
C19_RegistersWhileLoading ==
    [][(C19Case' /\ Idle) =>
           /\ dom'.invoked = dom.invoked
           /\ Includes(dom'.listeners[document], call'.name)]_vars
C19_NoneWhileLoading ==
    (Includes(this, document) /\ dom.readyState[document] = "loading") => dom.invoked = <<>>
C19_RunsAfterLoading ==
    \A l \in Listeners :
        (Includes(dom.listeners[document], l) /\ dom.readyState[document] # "loading")
            ~> Includes(dom.invoked, l)
C19_NoneWithoutDocument == HoldsNoDocument => dom.invoked = <<>>
\* the receivers whose members with a readyState are all this one Document
OnlyTheDocument == \A i \in 1 .. Len(this) : HasProp(dom, this[i], "readyState") => this[i] = document
C19_HoldsOfTheDocumentAlone ==
    /\ [](OnlyTheDocument => C19_NoneWhileLoading)
    /\ [](OnlyTheDocument => C19_NoneWithoutDocument)

\* C30: the listeners handed to ready() on the Document are invoked in the
\* order of their (first) ready() calls: one that has been invoked was not
\* handed over after one that has not been invoked yet or was invoked later.
C30_ReadyInCallOrder ==
    \A l, m \in Listeners :
        (Includes(dom.invoked, m) /\ Includes(dom.readyOrder, l)
            /\ IndexOf(dom.readyOrder, l) < IndexOf(dom.readyOrder, m))
        => (Includes(dom.invoked, l) /\ IndexOf(dom.invoked, l) < IndexOf(dom.invoked, m))

\* ------------------------------------------------- claims on SpecPredicates
\* Boolean(value), and value.nodeType where there is one (0 where not)
Truthy(v) == v \notin {Null, UndefinedValue}
TypeOfValue == IF Truthy(call.list[1]) THEN NodeTypeOf(call.dom, call.list[1]) ELSE 0

\* C20: a predicate returns a boolean and changes nothing; isNode is true
\* exactly of the truthy values with a truthy nodeType, isElement of those
\* with nodeType 1, isDocument 9, isParentNode 1, 9 or 11, isChildNode 1, 3,
\* 4, 7, 8 or 10, isDOMItem of the truthy values that have addEventListener
\* (the nodes and the window); all are false of null and undefined.
C20Case == call.op \in Predicates
C20_PredicatesByNodeType ==
    C20Case =>
        /\ dom = call.dom /\ this = call.this
        /\ ret.kind = "boolean"
        /\ call.op = "isNode" => ret.bool = (TypeOfValue # 0)
        /\ call.op = "isElement" => ret.bool = (TypeOfValue = 1)
        /\ call.op = "isDocument" => ret.bool = (TypeOfValue = 9)
        /\ call.op = "isParentNode" => ret.bool = (TypeOfValue \in {1, 9, 11})
        /\ call.op = "isChildNode" => ret.bool = (TypeOfValue \in {1, 3, 4, 7, 8, 10})
        /\ call.op = "isDOMItem" => ret.bool = (TypeOfValue # 0 \/ call.list[1] = Window)
        /\ ~Truthy(call.list[1]) => ~ret.bool
C20_Witness ==
    /\ C20Case
    /\ call.op = "isChildNode"
    /\ call.list = <<10>>
    /\ call.dom.nodeType[10] = 10
    /\ ret = RetBool(TRUE)

\* C28: attr(name, v), data(key, v) or text(v) followed by the getter with
\* the same name or key returns v, on every Collection with a member the
\* getter reads from (an Element for attr, an Element with a dataset for
\* data, a Node for text).
C28Case ==
    /\ call.op = "get"
    /\ \E i \in 1 .. Len(call.this) :
           IF call.sel.str = "text" THEN NodeTypeOf(call.dom, call.this[i]) # 0
           ELSE IF call.sel.str = "data" THEN HasDataset(call.dom, call.this[i])
           ELSE NodeTypeOf(call.dom, call.this[i]) = ELEMENT_NODE
C28_SetThenGet == C28Case => ret = RetStr(call.value.str)

\* C28, as it holds: the same, except that for text the first Node member
\* must be neither a Document nor a doctype, whose textContent is null and is
\* not set.
FirstNodeIsDocumentOrDoctype ==
    \E i \in 1 .. Len(call.this) :
        /\ NodeTypeOf(call.dom, call.this[i]) \in {DOCUMENT_NODE, DOCUMENT_TYPE_NODE}
        /\ \A j \in 1 .. i - 1 : NodeTypeOf(call.dom, call.this[j]) = 0
C28_SetThenGetButDocument ==
    (C28Case /\ ~(call.sel.str = "text" /\ FirstNodeIsDocumentOrDoctype)) => ret = RetStr(call.value.str)
C28_Witness ==
    /\ C28Case
    /\ call.sel.str = "data"
    /\ call.key = StrArg(<<"a", "-", "b">>)
    /\ call.value = StrArg("z")
    /\ call.this = <<11, 3, 4>>
    /\ dom.dataset[11] = NoData
    /\ dom.dataset[4][<<"a", "B">>] = "z"
    /\ ret = RetStr("z")

\* ----------------------------------------------------- claims on SpecEmpty
EmptyReturned == call.op \in {"empty", "emptyCjs"} /\ ret.kind = "this"
\* every turn of the removal loop takes one child from the member in hand
RemovalProgress ==
    (Running /\ dom' # dom) =>
        /\ call.list # <<>>
        /\ Len(dom'.childNodes[Head(call.list)]) = Len(dom.childNodes[Head(call.list)]) - 1
        /\ UNCHANGED <<this, call>>
EmptiedAndReturned ==
    EmptyReturned =>
        /\ ret = RetThis
        /\ this = call.this
        /\ \A i \in 1 .. Len(call.this) : call.this[i] \in Nodes => dom.childNodes[call.this[i]] = <<>>

\* C29: a call of empty() returns; when it has, every Node member has no
\* child nodes, every member has the parent it had, the Collection is as it
\* was and is what the call returned; every turn of the removal loop removes
\* one child.
AllMembersStay ==
    EmptyReturned =>
        \A i \in 1 .. Len(call.this) :
            call.this[i] \in Nodes => ParentNode(dom, call.this[i]) = ParentNode(call.dom, call.this[i])
C29_EmptyKeepsMembersAttached == EmptiedAndReturned /\ AllMembersStay

\* C29, as it holds: the same, where only the members that are not children
\* of another member keep their parent (a member that is the child of a
\* member is removed with the other children).
OuterMembersStay ==
    EmptyReturned =>
        \A i \in 1 .. Len(call.this) :
            (call.this[i] \in Nodes /\ ParentNode(call.dom, call.this[i]) \notin Range(call.this))
                => ParentNode(dom, call.this[i]) = ParentNode(call.dom, call.this[i])
C29_EmptyTerminates ==
    /\ [](EmptiedAndReturned /\ OuterMembersStay)
    /\ [][RemovalProgress]_vars
    /\ (call.op = "empty") ~> EmptyReturned
C29_Witness ==
    /\ EmptyReturned
    /\ call.op = "empty"
    /\ call.this = <<2, Window, 5>>
    /\ call.dom.childNodes[2] = <<3, 4, 6>>
    /\ dom.childNodes[2] = <<>>
    /\ ParentNode(dom, 2) = 1
    /\ ParentNode(dom, 5) = 3
====
